---- MODULE Spec2Model ----
(***************************************************************************)
(* zstore: the storage provisioning API of zstored.                        *)
(*                                                                         *)
(* The model follows the latest revision of the storage handler           *)
(* (zstoredhttp/storage.go, second half of the file), the ZFS-backed Pool  *)
(* (storage/pool.go with ListVolumes), the size catalog (storage/slugs.go) *)
(* and the error classifiers of zfsutil.                                   *)
(*                                                                         *)
(* Strings that the code takes apart are sequences: a path or a dataset    *)
(* name is the sequence of its "/"-separated segments, a size slug is the  *)
(* sequence of its characters, a client address is the sequence            *)
(* <<host, ":", port>>.  Byte counts are kept in MiB, since 8G does not    *)
(* fit the checker's integers: 256M is 256, 1G is 1024.                    *)
(***************************************************************************)
EXTENDS Integers, Sequences, FiniteSets, TLC

VARIABLES
    datasets,   \* the datasets of the ZFS pool: name -> [kind, size]
    resp,       \* the request just served and its response, until delivered
    script,     \* the lifecycle client: its stage, target and the answers so far
    thr         \* the handler invocations in flight (concurrent requests)

vars == <<datasets, resp, script, thr>>

----------------------------------------------------------------------------
(* Bounds of the model *)

\* Number of leaf volume names a client may use.
NumLeaves == 2

LeafNames == <<"disk1", "disk2", "disk3", "disk4">>
Leaves == {LeafNames[i] : i \in 1..NumLeaves}

\* Client hosts (the IP part of RemoteAddr).
Hosts == {"10.0.0.1", "10.0.0.2"}

----------------------------------------------------------------------------
(* storage/slugs.go: the size catalog *)

MB == 1
GB == 1024 * MB

S256M == <<"2", "5", "6", "M">>
S512M == <<"5", "1", "2", "M">>
S1G == <<"1", "G">>
S2G == <<"2", "G">>
S4G == <<"4", "G">>
S8G == <<"8", "G">>

\* storageSizeMap, as the set of its (key, value) pairs.
storageSizeMap ==
    { <<S256M, 256 * MB>>, <<S512M, 512 * MB>>, <<S1G, 1 * GB>>,
      <<S2G, 2 * GB>>, <<S4G, 4 * GB>>, <<S8G, 8 * GB>> }

CatalogKeys == {e[1] : e \in storageSizeMap}

\* Faulty variant of SlugSize: a key that begins with the slug matches.
SlugSizePrefix(slug) ==
    IF \E e \in storageSizeMap :
          Len(slug) <= Len(e[1]) /\ SubSeq(e[1], 1, Len(slug)) = slug
    THEN [size |-> (CHOOSE e \in storageSizeMap :
                       Len(slug) <= Len(e[1]) /\ SubSeq(e[1], 1, Len(slug)) = slug)[2],
          ok |-> TRUE]
    ELSE [size |-> 0, ok |-> FALSE]

\* SlugSize: exact-match map lookup, (size, ok).
SlugSize(slug) ==
    IF \E e \in storageSizeMap : e[1] = slug
    THEN [size |-> (CHOOSE e \in storageSizeMap : e[1] = slug)[2], ok |-> TRUE]
    ELSE [size |-> 0, ok |-> FALSE]

\* The precedence table of bySizeSlug.Less.
suffixPrecedence ==
    { <<"B", 0>>, <<"K", 1>>, <<"M", 2>>, <<"G", 3>>, <<"T", 4>>,
      <<"P", 5>>, <<"E", 6>>, <<"Z", 7>>, <<"Y", 8>> }

Precedence(c) ==
    IF \E e \in suffixPrecedence : e[1] = c
    THEN [p |-> (CHOOSE e \in suffixPrecedence : e[1] = c)[2], ok |-> TRUE]
    ELSE [p |-> 0, ok |-> FALSE]

Digits == <<"0", "1", "2", "3", "4", "5", "6", "7", "8", "9">>

IsDigit(c) == \E d \in 1..10 : Digits[d] = c

DigitValue(c) == (CHOOSE d \in 1..10 : Digits[d] = c) - 1

\* strconv.ParseUint(s, 10, 64) on a character sequence: (value, ok).
RECURSIVE ParseDigits(_)
ParseDigits(s) ==
    IF s = <<>> THEN 0
    ELSE 10 * ParseDigits(SubSeq(s, 1, Len(s) - 1)) + DigitValue(s[Len(s)])

ParseUint(s) ==
    IF s # <<>> /\ \A i \in 1..Len(s) : IsDigit(s[i])
    THEN [value |-> ParseDigits(s), ok |-> TRUE]
    ELSE [value |-> 0, ok |-> FALSE]

\* Faulty variant of bySizeSlug.Less: the suffixes are not compared.
LessByValue(a, b) ==
    IF a = <<>> \/ b = <<>> THEN [panic |-> TRUE, less |-> FALSE]
    ELSE
    LET iV == ParseUint(SubSeq(a, 1, Len(a) - 1))
        jV == ParseUint(SubSeq(b, 1, Len(b) - 1))
    IN  IF ~iV.ok \/ ~jV.ok THEN [panic |-> TRUE, less |-> FALSE]
        ELSE [panic |-> FALSE, less |-> iV.value < jV.value]

\* Faulty variant of bySizeSlug.Less: with equal suffixes the magnitudes are
\* compared by their first character.
LessLexical(a, b) ==
    IF a = <<>> \/ b = <<>> THEN [panic |-> TRUE, less |-> FALSE]
    ELSE
    LET iP == Precedence(a[Len(a)])
        jP == Precedence(b[Len(b)])
        iV == ParseUint(SubSeq(a, 1, Len(a) - 1))
        jV == ParseUint(SubSeq(b, 1, Len(b) - 1))
    IN  IF ~iP.ok \/ ~jP.ok THEN [panic |-> TRUE, less |-> FALSE]
        ELSE IF iP.p < jP.p THEN [panic |-> FALSE, less |-> TRUE]
        ELSE IF jP.p < iP.p THEN [panic |-> FALSE, less |-> FALSE]
        ELSE IF ~iV.ok \/ ~jV.ok THEN [panic |-> TRUE, less |-> FALSE]
        ELSE [panic |-> FALSE, less |-> DigitValue(a[1]) < DigitValue(b[1])]

\* bySizeSlug.Less on two slugs: [panic, less].  Slicing an empty slug
\* (s[len(s)-1:]) is a run-time panic as well.
Less(a, b) ==
    IF a = <<>> \/ b = <<>> THEN [panic |-> TRUE, less |-> FALSE]
    ELSE
    LET iP == Precedence(a[Len(a)])
        jP == Precedence(b[Len(b)])
        iV == ParseUint(SubSeq(a, 1, Len(a) - 1))
        jV == ParseUint(SubSeq(b, 1, Len(b) - 1))
    IN  IF ~iP.ok \/ ~jP.ok THEN [panic |-> TRUE, less |-> FALSE]
        ELSE IF iP.p < jP.p THEN [panic |-> FALSE, less |-> TRUE]
        ELSE IF jP.p < iP.p THEN [panic |-> FALSE, less |-> FALSE]
        ELSE IF ~iV.ok \/ ~jV.ok THEN [panic |-> TRUE, less |-> FALSE]
        ELSE [panic |-> FALSE, less |-> iV.value < jV.value]

\* sort.Sort on a short slice is an insertion sort driven by Less and Swap:
\* the element at j moves down while it is less than its left neighbour.
RECURSIVE SinkDown(_, _)
SinkDown(s, j) ==
    IF j > 1 /\ Less(s[j], s[j - 1]).less
    THEN SinkDown([s EXCEPT ![j] = s[j - 1], ![j - 1] = s[j]], j - 1)
    ELSE s

RECURSIVE InsertionSort(_, _)
InsertionSort(s, i) ==
    IF i > Len(s) THEN s ELSE InsertionSort(SinkDown(s, i), i + 1)

\* Faulty variant of Slugs: the keys are returned as the map yields them.
SlugsFromUnsorted(order) == order

\* Slugs, given the order in which the map range yields the keys.
SlugsFrom(order) == InsertionSort(order, 2)

\* One iteration order of storageSizeMap (Go leaves the order undefined).
MapOrder == <<S4G, S256M, S8G, S1G, S512M, S2G>>

Slugs == SlugsFrom(MapOrder)

\* Every order in which the map range can yield the keys, and the lists
\* that Slugs can return for them.
MapOrders ==
    {o \in [1..Cardinality(CatalogKeys) -> CatalogKeys] :
        \A i, j \in DOMAIN o : o[i] = o[j] => i = j}

SlugLists == {SlugsFrom(o) : o \in MapOrders}

----------------------------------------------------------------------------
(* Names: net.SplitHostPort, md5, path.Base, filepath.Join *)

\* A request path is modelled by what follows the route prefix that
\* volumeName strips, split on "/" ("" is <<"">>, "a/" is <<"a", "">>).

\* The zpool that zstored manages.
ZpoolName == "zstore"

\* fmt.Sprintf("%x", md5.Sum([]byte(host))): the digests of the hosts.
MD5Hex(host) ==
    CASE host = "10.0.0.1" -> "190dafab69706a67221c1226360de7dc"
      [] host = "10.0.0.2" -> "98a2cd7efa1ba950d42e42af495c4248"
      [] host = "10.0.0.3" -> "0069403611eca9fb8238d79afd9b0e46"
      [] OTHER -> "d41d8cd98f00b204e9800998ecf8427e"

Buckets == {MD5Hex(h) : h \in Hosts}

\* Faulty variant of net.SplitHostPort: the host is lost.
SplitHostPortNoHost(addr) ==
    IF Len(addr) = 3 /\ addr[2] = ":"
    THEN [host |-> "", ok |-> TRUE]
    ELSE [host |-> "", ok |-> FALSE]

\* net.SplitHostPort: the host before the colon; an address with no colon
\* ("missing port in address") is an error.
SplitHostPort(addr) ==
    IF Len(addr) = 3 /\ addr[2] = ":"
    THEN [host |-> addr[1], ok |-> TRUE]
    ELSE [host |-> "", ok |-> FALSE]

\* path.Base: "." for the empty path, trailing slashes stripped, the last
\* element, "/" when only slashes were there.
RECURSIVE StripTrailingSlashes(_)
StripTrailingSlashes(p) ==
    IF Len(p) > 1 /\ p[Len(p)] = ""
    THEN StripTrailingSlashes(SubSeq(p, 1, Len(p) - 1))
    ELSE p

Base(p) ==
    IF p = <<"">> THEN "."
    ELSE LET q == StripTrailingSlashes(p)
         IN  IF q[Len(q)] = "" THEN "/" ELSE q[Len(q)]

\* filepath.Clean on the segments of a relative path: empty and "."
\* segments go, ".." removes the segment before it.
RECURSIVE Clean(_, _)
Clean(segs, acc) ==
    IF segs = <<>> THEN (IF acc = <<>> THEN <<".">> ELSE acc)
    ELSE LET s == Head(segs)
         IN  IF s = "" \/ s = "." THEN Clean(Tail(segs), acc)
             ELSE IF s = ".." /\ acc # <<>> /\ acc[Len(acc)] # ".."
                  THEN Clean(Tail(segs), SubSeq(acc, 1, Len(acc) - 1))
             ELSE Clean(Tail(segs), Append(acc, s))

\* filepath.Join of the pool name, the bucket and the base of the path.
Join(pool, bucket, base) ==
    Clean(<<pool, bucket>> \o (IF base = "/" THEN <<"", "">> ELSE <<base>>), <<>>)

\* Faulty variant of volumeName: an address that cannot be split is taken
\* as one with no host.
volumeNameLenient(r) ==
    LET hp == SplitHostPort(r.addr)
    IN  [name |-> Join(ZpoolName, MD5Hex(hp.host), Base(r.path)), ok |-> TRUE]

\* StorageContext.volumeName: the volume name of a request, or an error.
volumeName(r) ==
    LET hp == SplitHostPort(r.addr)
    IN  IF ~hp.ok THEN [name |-> <<>>, ok |-> FALSE]
        ELSE [name |-> Join(ZpoolName, MD5Hex(hp.host), Base(r.path)), ok |-> TRUE]

\* len(strings.Split(name, "/"))
Depth(name) == Len(name)

----------------------------------------------------------------------------
(* Errors *)

NilErr == [kind |-> "nil", stderr |-> <<>>]
ErrVolumeNotExists == [kind |-> "ErrVolumeNotExists", stderr |-> <<>>]
ErrPoolOutOfSpace == [kind |-> "ErrPoolOutOfSpace", stderr |-> <<>>]
errInvalidSize == [kind |-> "errInvalidSize", stderr |-> <<>>]
EOF == [kind |-> "io.EOF", stderr |-> <<>>]
ErrUnexpectedEOF == [kind |-> "io.ErrUnexpectedEOF", stderr |-> <<>>]
UnmarshalTypeError == [kind |-> "json.UnmarshalTypeError", stderr |-> <<>>]
JSONError == [kind |-> "json", stderr |-> <<>>]
AddrError == [kind |-> "net.AddrError", stderr |-> <<>>]
ExecError == [kind |-> "exec", stderr |-> <<>>]

\* A *zfs.Error with the stderr of the zfs command, as its fragments.
ZfsError(stderr) == [kind |-> "zfs.Error", stderr |-> stderr]

StderrNoDataset == <<"cannot open", "dataset does not exist\n">>
StderrNoSpace == <<"cannot create", "out of space\n">>
StderrExists == <<"cannot create", "dataset already exists\n">>
StderrBadParent == <<"cannot create", "parent is not a filesystem\n">>
StderrDenied == <<"Unable to open /dev/zfs: Permission denied.\n">>
StderrNoPool == <<"cannot open 'zstore': no such pool\n">>

\* strings.Contains(zErr.Stderr, fragment)
Contains(stderr, fragment) == \E i \in 1..Len(stderr) : stderr[i] = fragment

IsZFSPermissionDenied(err) ==
    err.kind = "zfs.Error" /\ err.stderr = StderrDenied

IsZpoolNotExists(err) ==
    err.kind = "zfs.Error" /\ err.stderr = StderrNoPool

IsDatasetNotExists(err) ==
    err.kind = "zfs.Error" /\ Contains(err.stderr, "dataset does not exist\n")

\* Faulty variant of IsOutOfSpace: the type of the error is not looked at.
IsOutOfSpaceAnyKind(err) == Contains(err.stderr, "out of space\n")

IsOutOfSpace(err) ==
    err.kind = "zfs.Error" /\ Contains(err.stderr, "out of space\n")

----------------------------------------------------------------------------
(* The zfs commands behind the Pool, as the pool's datasets see them *)

NoDataset == [kind |-> "none", size |-> 0]

DatasetNames ==
    {<<ZpoolName>>} \cup {<<ZpoolName, b>> : b \in Buckets}
        \cup {<<ZpoolName, b, l>> : b \in Buckets, l \in Leaves}

Lookup(ds, name) == IF name \in DOMAIN ds THEN ds[name] ELSE NoDataset

Parent(name) == SubSeq(name, 1, Len(name) - 1)

IsUnder(name, root) ==
    Len(name) >= Len(root) /\ SubSeq(name, 1, Len(root)) = root

\* What the zfs command does to a call: "ok" runs it, the other faults make
\* it fail whatever the datasets are.
Faults == {"ok", "denied", "exec", "nospace"}

FaultError(fault) ==
    CASE fault = "denied" -> ZfsError(StderrDenied)
      [] fault = "nospace" -> ZfsError(StderrNoSpace)
      [] OTHER -> ExecError

\* A fault plan names the zfs call of the request that fails (0: none).
NoPlan == [at |-> 0, fault |-> "ok"]
FaultPlans ==
    {NoPlan} \cup {[at |-> n, fault |-> f] : n \in 1..2, f \in Faults \ {"ok"}}

FaultAt(plan, n) == IF plan.at = n THEN plan.fault ELSE "ok"

\* zfs.GetDataset(name): the dataset, or the zfs error.
GetDataset(ds, name, fault) ==
    IF fault # "ok" THEN [err |-> FaultError(fault), name |-> name, d |-> NoDataset]
    ELSE IF Lookup(ds, name).kind = "none"
    THEN [err |-> ZfsError(StderrNoDataset), name |-> name, d |-> NoDataset]
    ELSE [err |-> NilErr, name |-> name, d |-> Lookup(ds, name)]

\* zfs.CreateVolume(name, size, nil): "zfs create -p -V size name" creates
\* the missing parents as filesystems; it fails if the name is taken or the
\* parent is a volume.
ZfsCreateVolume(ds, name, size, fault) ==
    IF fault # "ok" THEN [err |-> FaultError(fault), ds |-> ds]
    ELSE IF Lookup(ds, name).kind # "none" \/ name \notin DOMAIN ds
    THEN [err |-> ZfsError(StderrExists), ds |-> ds]
    ELSE IF Lookup(ds, Parent(name)).kind = "volume"
    THEN [err |-> ZfsError(StderrBadParent), ds |-> ds]
    ELSE [err |-> NilErr,
          ds |-> [n \in DOMAIN ds |->
                    IF n = name THEN [kind |-> "volume", size |-> size]
                    ELSE IF n = Parent(name) /\ ds[n].kind = "none"
                         THEN [kind |-> "filesystem", size |-> 0]
                    ELSE ds[n]]]

\* Faulty variant of Dataset.Destroy: destroying what is gone succeeds.
ZfsDestroyAbsentOK(ds, name, fault) ==
    IF fault # "ok" THEN [err |-> FaultError(fault), ds |-> ds]
    ELSE [err |-> NilErr,
          ds |-> [n \in DOMAIN ds |->
                    IF IsUnder(n, name) THEN NoDataset ELSE ds[n]]]

\* Dataset.Destroy(zfs.DestroyRecursive): the dataset and all below it go.
ZfsDestroy(ds, name, fault) ==
    IF fault # "ok" THEN [err |-> FaultError(fault), ds |-> ds]
    ELSE IF Lookup(ds, name).kind = "none"
    THEN [err |-> ZfsError(StderrNoDataset), ds |-> ds]
    ELSE [err |-> NilErr,
          ds |-> [n \in DOMAIN ds |->
                    IF IsUnder(n, name) THEN NoDataset ELSE ds[n]]]

\* Dataset.Children(1): the datasets directly below, in name order.
SegmentOrder ==
    <<"190dafab69706a67221c1226360de7dc", "98a2cd7efa1ba950d42e42af495c4248">>
        \o SubSeq(LeafNames, 1, NumLeaves)

RECURSIVE ChildrenFrom(_, _, _)
ChildrenFrom(ds, root, i) ==
    IF i > Len(SegmentOrder) THEN <<>>
    ELSE LET n == Append(root, SegmentOrder[i])
         IN  (IF Lookup(ds, n).kind # "none"
              THEN <<[name |-> n, d |-> Lookup(ds, n)]>> ELSE <<>>)
             \o ChildrenFrom(ds, root, i + 1)

Children(ds, root, fault) ==
    IF fault # "ok" THEN [err |-> FaultError(fault), list |-> <<>>]
    ELSE [err |-> NilErr, list |-> ChildrenFrom(ds, root, 1)]

----------------------------------------------------------------------------
(* storage.Zpool and storage.Zvol: the ZFS-backed Pool and Volume *)

NoVolume == [name |-> <<>>, size |-> 0]

\* Faulty variant of Zpool.Volume: the dataset type is not checked.
PoolVolumeAnyType(ds, name, fault) ==
    LET g == GetDataset(ds, name, fault)
    IN  IF g.err # NilErr
        THEN IF IsDatasetNotExists(g.err)
             THEN [err |-> ErrVolumeNotExists, vol |-> NoVolume]
             ELSE [err |-> g.err, vol |-> NoVolume]
        ELSE [err |-> NilErr, vol |-> [name |-> name, size |-> g.d.size]]

\* Faulty variant of Zpool.Volume: a dataset that is no volume is reported
\* as an error of its own.
PoolVolumeTypeError(ds, name, fault) ==
    LET g == GetDataset(ds, name, fault)
    IN  IF g.err # NilErr
        THEN IF IsDatasetNotExists(g.err)
             THEN [err |-> ErrVolumeNotExists, vol |-> NoVolume]
             ELSE [err |-> g.err, vol |-> NoVolume]
        ELSE IF g.d.kind # "volume"
        THEN [err |-> ExecError, vol |-> NoVolume]
        ELSE [err |-> NilErr, vol |-> [name |-> name, size |-> g.d.size]]

\* Zpool.Volume
PoolVolume(ds, name, fault) ==
    LET g == GetDataset(ds, name, fault)
    IN  IF g.err # NilErr
        THEN IF IsDatasetNotExists(g.err)
             THEN [err |-> ErrVolumeNotExists, vol |-> NoVolume]
             ELSE [err |-> g.err, vol |-> NoVolume]
        ELSE IF g.d.kind # "volume"
        THEN [err |-> ErrVolumeNotExists, vol |-> NoVolume]
        ELSE [err |-> NilErr, vol |-> [name |-> name, size |-> g.d.size]]

\* Faulty variant of Zpool.CreateVolume: the zfs error is not classified.
PoolCreateVolumeRaw(ds, name, size, fault) ==
    LET c == ZfsCreateVolume(ds, name, size, fault)
    IN  IF c.err # NilErr
        THEN [err |-> c.err, vol |-> NoVolume, ds |-> ds]
        ELSE [err |-> NilErr,
              vol |-> [name |-> name, size |-> Lookup(c.ds, name).size],
              ds |-> c.ds]

\* Zpool.CreateVolume
PoolCreateVolume(ds, name, size, fault) ==
    LET c == ZfsCreateVolume(ds, name, size, fault)
    IN  IF c.err # NilErr
        THEN IF IsOutOfSpace(c.err)
             THEN [err |-> ErrPoolOutOfSpace, vol |-> NoVolume, ds |-> ds]
             ELSE [err |-> c.err, vol |-> NoVolume, ds |-> ds]
        ELSE [err |-> NilErr,
              vol |-> [name |-> name, size |-> Lookup(c.ds, name).size],
              ds |-> c.ds]

\* Faulty variant of the loop of Zpool.ListVolumes: no child is skipped.
RECURSIVE AllChildren(_)
AllChildren(children) ==
    IF children = <<>> THEN <<>>
    ELSE <<[name |-> Head(children).name, size |-> Head(children).d.size]>>
         \o AllChildren(Tail(children))

\* The loop of Zpool.ListVolumes: the children that are volumes, wrapped.
RECURSIVE OnlyVolumes(_)
OnlyVolumes(children) ==
    IF children = <<>> THEN <<>>
    ELSE (IF Head(children).d.kind # "volume" THEN <<>>
          ELSE <<[name |-> Head(children).name, size |-> Head(children).d.size]>>)
         \o OnlyVolumes(Tail(children))

\* Zpool.ListVolumes: a Go slice is [nil, elems]; appending nothing to the
\* declared slice leaves it nil.
PoolListVolumes(ds, bucket, fault1, fault2) ==
    LET g == GetDataset(ds, bucket, fault1)
        c == Children(ds, bucket, fault2)
        v == OnlyVolumes(c.list)
    IN  IF g.err # NilErr
        THEN IF IsDatasetNotExists(g.err)
             THEN [err |-> ErrVolumeNotExists, nil |-> TRUE, elems |-> <<>>, cmds |-> 1]
             ELSE [err |-> g.err, nil |-> TRUE, elems |-> <<>>, cmds |-> 1]
        ELSE IF c.err # NilErr
        THEN [err |-> c.err, nil |-> TRUE, elems |-> <<>>, cmds |-> 2]
        ELSE [err |-> NilErr, nil |-> (v = <<>>), elems |-> v, cmds |-> 2]

\* Faulty variant of Zvol.Destroy: the dataset above the volume is destroyed.
VolumeDestroyBucket(ds, vol, fault) == ZfsDestroy(ds, Parent(vol.name), fault)

\* Faulty variant of Zvol.Destroy: success is reported and the volume kept.
VolumeDestroyKeeps(ds, vol, fault) ==
    IF fault # "ok" THEN [err |-> FaultError(fault), ds |-> ds]
    ELSE [err |-> NilErr, ds |-> ds]

\* Zvol.Destroy
VolumeDestroy(ds, vol, fault) == ZfsDestroy(ds, vol.name, fault)

----------------------------------------------------------------------------
(* zstoredhttp: the storage handler *)

StatusOK == 200
StatusCreated == 201
StatusNoContent == 204
StatusBadRequest == 400
StatusNotFound == 404
StatusMethodNotAllowed == 405
StatusConflict == 409
StatusInternalServerError == 500
StatusServiceUnavailable == 503

NoBody ==
    [kind |-> "none", text |-> "", slugs |-> <<>>, volumes |-> <<>>, null |-> FALSE]
TextBody(t) == [NoBody EXCEPT !.kind = "text", !.text = t]
SlugsBody(l) == [NoBody EXCEPT !.kind = "slugs", !.slugs = l]

\* json.Marshal(&StorageResponse{Volumes: slice}): a nil slice is null.
Marshal(slice) ==
    [NoBody EXCEPT !.kind = "json", !.volumes = slice.elems, !.null = slice.nil]

\* Faulty variant of the JSON Volume: Name is the directory of the name.
JSONVolumeBucketName(vol) ==
    [name |-> vol.name[Len(vol.name) - 1], size |-> vol.size]

\* The JSON Volume of a storage.Volume: Name is path.Base(volume.Name()).
JSONVolume(vol) == [name |-> Base(vol.name), size |-> vol.size]

\* A Pool or Volume call: its arguments, the error it returned and the
\* number of zfs commands it ran.
Call(op, name, size, err, cmds) ==
    [op |-> op, name |-> name, size |-> size, err |-> err.kind, cmds |-> cmds]

\* What a StorageHandlerFunc returns, with the pool it leaves and the Pool
\* and Volume calls it made.
Result(code, body, err, ds, calls) ==
    [code |-> code, body |-> body, err |-> err, ds |-> ds, calls |-> calls]

\* Faulty variant of storageSize: a missing body is a decoding error.
storageSizeEOFIsError(r) ==
    IF r.body.kind # "json" THEN [size |-> 0, err |-> JSONError]
    ELSE IF ~SlugSize(r.body.size).ok THEN [size |-> 0, err |-> errInvalidSize]
    ELSE [size |-> SlugSize(r.body.size).size, err |-> NilErr]

\* Faulty variant of storageSize: a slug that is not found is let through.
storageSizeLenient(r) ==
    IF r.body.kind = "empty" THEN [size |-> 0, err |-> errInvalidSize]
    ELSE IF r.body.kind # "json" THEN [size |-> 0, err |-> JSONError]
    ELSE [size |-> SlugSize(r.body.size).size, err |-> NilErr]

\* Faulty variant of Decode: a null where the size string is expected is a
\* type error.
DecodeNullIsTypeError(body) ==
    CASE body.kind \in {"empty", "blank"} -> [err |-> EOF, size |-> <<>>]
      [] body.kind = "json" -> [err |-> NilErr, size |-> body.size]
      [] body.kind = "null" -> [err |-> NilErr, size |-> <<>>]
      [] body.kind = "truncated" -> [err |-> ErrUnexpectedEOF, size |-> <<>>]
      [] body.kind \in {"badtype", "nullsize"} -> [err |-> UnmarshalTypeError, size |-> <<>>]
      [] OTHER -> [err |-> JSONError, size |-> <<>>]

\* json.NewDecoder(r.Body).Decode(sr) into a new StorageRequest: the error
\* and sr.Size.  A body without a JSON value (nothing, or white space only)
\* is io.EOF; a JSON value that ends early is io.ErrUnexpectedEOF; text that
\* is no JSON is a syntax error; a size that is a number is a type error; a
\* null, as the value or as the size, has no effect and leaves Size empty,
\* as does an object without a size.
Decode(body) ==
    CASE body.kind \in {"empty", "blank"} -> [err |-> EOF, size |-> <<>>]
      [] body.kind = "json" -> [err |-> NilErr, size |-> body.size]
      [] body.kind \in {"null", "nullsize"} -> [err |-> NilErr, size |-> <<>>]
      [] body.kind = "truncated" -> [err |-> ErrUnexpectedEOF, size |-> <<>>]
      [] body.kind = "badtype" -> [err |-> UnmarshalTypeError, size |-> <<>>]
      [] OTHER -> [err |-> JSONError, size |-> <<>>]

\* storageSize: the size of the slug in the request body.
storageSize(r) ==
    LET d == Decode(r.body)
    IN  IF d.err # NilErr
        THEN IF d.err = EOF THEN [size |-> 0, err |-> errInvalidSize]
             ELSE [size |-> 0, err |-> d.err]
        ELSE IF ~SlugSize(d.size).ok THEN [size |-> 0, err |-> errInvalidSize]
        ELSE [size |-> SlugSize(d.size).size, err |-> NilErr]

\* Faulty variant of createProbe: the depth of the name is not checked.
createProbeNoDepth(ds, name, fault) ==
    LET p == PoolVolume(ds, name, fault)
        calls == <<Call("Volume", name, 0, p.err, 1)>>
    IN  IF p.err = NilErr
        THEN [done |-> TRUE, vol |-> NoVolume,
              out |-> Result(StatusConflict, NoBody, NilErr, ds, calls)]
        ELSE IF p.err # ErrVolumeNotExists
        THEN [done |-> TRUE, vol |-> NoVolume,
              out |-> Result(StatusInternalServerError, NoBody, p.err, ds, calls)]
        ELSE [done |-> FALSE, vol |-> NoVolume,
              out |-> Result(0, NoBody, NilErr, ds, calls)]

\* createVolume up to the probe: done with a response, or going on.
createProbe(ds, name, fault) ==
    IF Depth(name) # 3
    THEN [done |-> TRUE, vol |-> NoVolume, out |-> Result(StatusNotFound, NoBody, NilErr, ds, <<>>)]
    ELSE LET p == PoolVolume(ds, name, fault)
             calls == <<Call("Volume", name, 0, p.err, 1)>>
         IN  IF p.err = NilErr
             THEN [done |-> TRUE, vol |-> NoVolume,
                   out |-> Result(StatusConflict, NoBody, NilErr, ds, calls)]
             ELSE IF p.err # ErrVolumeNotExists
             THEN [done |-> TRUE, vol |-> NoVolume,
                   out |-> Result(StatusInternalServerError, NoBody, p.err, ds, calls)]
             ELSE [done |-> FALSE, vol |-> NoVolume,
                   out |-> Result(0, NoBody, NilErr, ds, calls)]

\* Faulty variant of createCommit: every failure of Pool.CreateVolume is
\* answered as out of space.
createCommitAll503(ds, name, r, fault, calls) ==
    LET s == storageSize(r)
        c == PoolCreateVolume(ds, name, s.size, fault)
        calls2 == Append(calls, Call("CreateVolume", name, s.size, c.err, 1))
    IN  IF s.err # NilErr
        THEN IF s.err = errInvalidSize
             THEN Result(StatusBadRequest, SlugsBody(Slugs), NilErr, ds, calls)
             ELSE Result(StatusInternalServerError, NoBody, s.err, ds, calls)
        ELSE IF c.err # NilErr
        THEN Result(StatusServiceUnavailable, NoBody, NilErr, c.ds, calls2)
        ELSE Result(StatusCreated,
                    Marshal([nil |-> FALSE, elems |-> <<JSONVolume(c.vol)>>]),
                    NilErr, c.ds, calls2)

\* createVolume after the probe: the size, Pool.CreateVolume, the response.
createCommit(ds, name, r, fault, calls) ==
    LET s == storageSize(r)
        c == PoolCreateVolume(ds, name, s.size, fault)
        calls2 == Append(calls, Call("CreateVolume", name, s.size, c.err, 1))
    IN  IF s.err # NilErr
        THEN IF s.err = errInvalidSize
             THEN Result(StatusBadRequest, SlugsBody(Slugs), NilErr, ds, calls)
             ELSE Result(StatusInternalServerError, NoBody, s.err, ds, calls)
        ELSE IF c.err # NilErr
        THEN IF c.err = ErrPoolOutOfSpace
             THEN Result(StatusServiceUnavailable, NoBody, NilErr, c.ds, calls2)
             ELSE Result(StatusInternalServerError, NoBody, c.err, c.ds, calls2)
        ELSE Result(StatusCreated,
                    Marshal([nil |-> FALSE, elems |-> <<JSONVolume(c.vol)>>]),
                    NilErr, c.ds, calls2)

\* Faulty variant of createVolume: the body is read before the probe.
createVolumeSizeFirst(ds, name, r, plan) ==
    LET p == createProbe(ds, name, FaultAt(plan, 1))
    IN  IF Depth(name) = 3 /\ storageSize(r).err # NilErr
        THEN createCommit(ds, name, r, "ok", <<>>)
        ELSE IF p.done THEN p.out
        ELSE createCommit(ds, name, r, FaultAt(plan, 2), p.out.calls)

\* StorageContext.createVolume
createVolume(ds, name, r, plan) ==
    LET p == createProbe(ds, name, FaultAt(plan, 1))
    IN  IF p.done THEN p.out
        ELSE createCommit(ds, name, r, FaultAt(plan, 2), p.out.calls)

\* destroyVolume up to the probe; going on, it holds the volume found.
destroyProbe(ds, name, fault) ==
    LET p == PoolVolume(ds, name, fault)
        calls == <<Call("Volume", name, 0, p.err, 1)>>
    IN  IF p.err # NilErr
        THEN IF p.err = ErrVolumeNotExists
             THEN [done |-> TRUE, vol |-> NoVolume,
                   out |-> Result(StatusNotFound, NoBody, NilErr, ds, calls)]
             ELSE [done |-> TRUE, vol |-> NoVolume,
                   out |-> Result(StatusInternalServerError, NoBody, p.err, ds, calls)]
        ELSE [done |-> FALSE, vol |-> p.vol,
              out |-> Result(0, NoBody, NilErr, ds, calls)]

\* Faulty variant of destroyCommit: a failed Destroy is tried again.
destroyCommitRetry(ds, vol, fault, calls) ==
    LET d == VolumeDestroy(ds, vol, fault)
        calls2 == Append(calls, Call("Destroy", vol.name, 0, d.err, 1))
        e == VolumeDestroy(ds, vol, "ok")
    IN  IF d.err # NilErr
        THEN Result(StatusNoContent, NoBody, NilErr, e.ds,
                    Append(calls2, Call("Destroy", vol.name, 0, e.err, 1)))
        ELSE Result(StatusNoContent, NoBody, NilErr, d.ds, calls2)

\* destroyVolume after the probe: Volume.Destroy and the response.
destroyCommit(ds, vol, fault, calls) ==
    LET d == VolumeDestroy(ds, vol, fault)
        calls2 == Append(calls, Call("Destroy", vol.name, 0, d.err, 1))
    IN  IF d.err # NilErr
        THEN Result(StatusInternalServerError, NoBody, d.err, d.ds, calls2)
        ELSE Result(StatusNoContent, NoBody, NilErr, d.ds, calls2)

\* Faulty variant of destroyVolume: the volume found is not destroyed.
destroyVolumeProbeOnly(ds, name, r, plan) ==
    LET p == destroyProbe(ds, name, FaultAt(plan, 1))
    IN  IF p.done THEN p.out
        ELSE Result(StatusNoContent, NoBody, NilErr, ds, p.out.calls)

\* StorageContext.destroyVolume
destroyVolume(ds, name, r, plan) ==
    LET p == destroyProbe(ds, name, FaultAt(plan, 1))
    IN  IF p.done THEN p.out
        ELSE destroyCommit(ds, p.vol, FaultAt(plan, 2), p.out.calls)

\* The output list of getAllUserVolumeMetadata: make([]*Volume, len(volumes)).
RECURSIVE WrapVolumes(_)
WrapVolumes(volumes) ==
    IF volumes = <<>> THEN <<>>
    ELSE <<JSONVolume(Head(volumes))>> \o WrapVolumes(Tail(volumes))

\* Faulty variant of getAllUserVolumeMetadata: ErrVolumeNotExists is not
\* let through.
getAllUserVolumeMetadataStrict(ds, name, r, plan) ==
    IF Depth(name) # 2 THEN Result(StatusNotFound, NoBody, NilErr, ds, <<>>)
    ELSE LET l == PoolListVolumes(ds, name, FaultAt(plan, 1), FaultAt(plan, 2))
             calls == <<Call("ListVolumes", name, 0, l.err, l.cmds)>>
         IN  IF l.err # NilErr
             THEN Result(StatusInternalServerError, NoBody, l.err, ds, calls)
             ELSE Result(StatusOK,
                         Marshal([nil |-> FALSE, elems |-> WrapVolumes(l.elems)]),
                         NilErr, ds, calls)

\* Faulty variant of getAllUserVolumeMetadata: the output list is declared
\* and appended to, so that it stays nil when there is no volume.
getAllUserVolumeMetadataNilSlice(ds, name, r, plan) ==
    IF Depth(name) # 2 THEN Result(StatusNotFound, NoBody, NilErr, ds, <<>>)
    ELSE LET l == PoolListVolumes(ds, name, FaultAt(plan, 1), FaultAt(plan, 2))
             calls == <<Call("ListVolumes", name, 0, l.err, l.cmds)>>
         IN  IF l.err # NilErr /\ l.err # ErrVolumeNotExists
             THEN Result(StatusInternalServerError, NoBody, l.err, ds, calls)
             ELSE Result(StatusOK,
                         Marshal([nil |-> (l.elems = <<>>),
                                  elems |-> WrapVolumes(l.elems)]),
                         NilErr, ds, calls)

\* StorageContext.getAllUserVolumeMetadata
getAllUserVolumeMetadata(ds, name, r, plan) ==
    IF Depth(name) # 2 THEN Result(StatusNotFound, NoBody, NilErr, ds, <<>>)
    ELSE LET l == PoolListVolumes(ds, name, FaultAt(plan, 1), FaultAt(plan, 2))
             calls == <<Call("ListVolumes", name, 0, l.err, l.cmds)>>
         IN  IF l.err # NilErr /\ l.err # ErrVolumeNotExists
             THEN Result(StatusInternalServerError, NoBody, l.err, ds, calls)
             ELSE Result(StatusOK,
                         Marshal([nil |-> FALSE, elems |-> WrapVolumes(l.elems)]),
                         NilErr, ds, calls)

\* Faulty variant of getSingleVolumeMetadata: every error of Pool.Volume is
\* taken for ErrVolumeNotExists.
getSingleVolumeMetadataAll404(ds, name, r, plan) ==
    IF Depth(name) # 3 THEN Result(StatusNotFound, NoBody, NilErr, ds, <<>>)
    ELSE LET p == PoolVolume(ds, name, FaultAt(plan, 1))
             calls == <<Call("Volume", name, 0, p.err, 1)>>
         IN  IF p.err # NilErr
             THEN Result(StatusNotFound, NoBody, NilErr, ds, calls)
             ELSE Result(StatusOK,
                         Marshal([nil |-> FALSE, elems |-> <<JSONVolume(p.vol)>>]),
                         NilErr, ds, calls)

\* StorageContext.getSingleVolumeMetadata
getSingleVolumeMetadata(ds, name, r, plan) ==
    IF Depth(name) # 3 THEN Result(StatusNotFound, NoBody, NilErr, ds, <<>>)
    ELSE LET p == PoolVolume(ds, name, FaultAt(plan, 1))
             calls == <<Call("Volume", name, 0, p.err, 1)>>
         IN  IF p.err # NilErr
             THEN IF p.err = ErrVolumeNotExists
                  THEN Result(StatusNotFound, NoBody, NilErr, ds, calls)
                  ELSE Result(StatusInternalServerError, NoBody, p.err, ds, calls)
             ELSE Result(StatusOK,
                         Marshal([nil |-> FALSE, elems |-> <<JSONVolume(p.vol)>>]),
                         NilErr, ds, calls)

\* StorageContext.getVolumeHandler
getVolumeHandler(ds, name, r, plan) ==
    CASE Depth(name) = 2 -> getAllUserVolumeMetadata(ds, name, r, plan)
      [] Depth(name) = 3 -> getSingleVolumeMetadata(ds, name, r, plan)
      [] OTHER -> Result(StatusNotFound, NoBody, NilErr, ds, <<>>)

\* The keys of methodFnMap.
HandledMethods == {"DELETE", "GET", "POST"}

\* Faulty variant of the end of ServeHTTP: the error is written to the
\* client.
RespondErrorText(r, plan, name, h) ==
    IF h.err # NilErr
    THEN [req |-> r, plan |-> plan, name |-> name,
          code |-> StatusInternalServerError,
          body |-> TextBody(h.err.kind),
          logged |-> 1, calls |-> h.calls, ds |-> h.ds]
    ELSE [req |-> r, plan |-> plan, name |-> name,
          code |-> h.code, body |-> h.body,
          logged |-> 0, calls |-> h.calls, ds |-> h.ds]

\* Faulty variant of the end of ServeHTTP: the error is not logged.
RespondQuiet(r, plan, name, h) ==
    IF h.err # NilErr
    THEN [req |-> r, plan |-> plan, name |-> name,
          code |-> StatusInternalServerError,
          body |-> TextBody("internal server error"),
          logged |-> 0, calls |-> h.calls, ds |-> h.ds]
    ELSE [req |-> r, plan |-> plan, name |-> name,
          code |-> h.code, body |-> h.body,
          logged |-> 0, calls |-> h.calls, ds |-> h.ds]

\* The end of ServeHTTP: the response written for a handler's result.
Respond(r, plan, name, h) ==
    IF h.err # NilErr
    THEN [req |-> r, plan |-> plan, name |-> name,
          code |-> StatusInternalServerError,
          body |-> TextBody("internal server error"),
          logged |-> 1, calls |-> h.calls, ds |-> h.ds]
    ELSE [req |-> r, plan |-> plan, name |-> name,
          code |-> h.code, body |-> h.body,
          logged |-> 0, calls |-> h.calls, ds |-> h.ds]

\* Faulty variant of ServeHTTP: PUT is a key of methodFnMap as well, for
\* createVolume.
ServeHTTPPutCreates(ds, r, plan) ==
    LET vn == volumeName(r)
    IN  IF ~vn.ok
        THEN Respond(r, plan, vn.name,
                     Result(StatusInternalServerError, NoBody, AddrError, ds, <<>>))
        ELSE IF r.method \notin HandledMethods \cup {"PUT"}
        THEN Respond(r, plan, vn.name,
                     Result(StatusMethodNotAllowed, TextBody("method not allowed"),
                            NilErr, ds, <<>>))
        ELSE Respond(r, plan, vn.name,
                     CASE r.method = "DELETE" -> destroyVolume(ds, vn.name, r, plan)
                       [] r.method = "GET" -> getVolumeHandler(ds, vn.name, r, plan)
                       [] OTHER -> createVolume(ds, vn.name, r, plan))

\* Faulty variant of ServeHTTP: a method that is no key of methodFnMap is
\* handled as GET.
ServeHTTPDefaultGet(ds, r, plan) ==
    LET vn == volumeName(r)
    IN  IF ~vn.ok
        THEN Respond(r, plan, vn.name,
                     Result(StatusInternalServerError, NoBody, AddrError, ds, <<>>))
        ELSE Respond(r, plan, vn.name,
                     CASE r.method = "DELETE" -> destroyVolume(ds, vn.name, r, plan)
                       [] r.method = "POST" -> createVolume(ds, vn.name, r, plan)
                       [] OTHER -> getVolumeHandler(ds, vn.name, r, plan))

\* StorageContext.ServeHTTP, on the pool ds: the response, the number of
\* log lines, the Pool calls made and the pool afterwards.
ServeHTTP(ds, r, plan) ==
    LET vn == volumeName(r)
    IN  IF ~vn.ok
        THEN Respond(r, plan, vn.name,
                     Result(StatusInternalServerError, NoBody, AddrError, ds, <<>>))
        ELSE IF r.method \notin HandledMethods
        THEN Respond(r, plan, vn.name,
                     Result(StatusMethodNotAllowed, TextBody("method not allowed"),
                            NilErr, ds, <<>>))
        ELSE Respond(r, plan, vn.name,
                     CASE r.method = "DELETE" -> destroyVolume(ds, vn.name, r, plan)
                       [] r.method = "GET" -> getVolumeHandler(ds, vn.name, r, plan)
                       [] r.method = "POST" -> createVolume(ds, vn.name, r, plan))

----------------------------------------------------------------------------
(* Requests *)

Port == "4000"
Addrs == {<<h, ":", Port>> : h \in Hosts} \cup {<<"10.0.0.1">>}

Methods == {"GET", "POST", "PUT", "DELETE", "PATCH"}

Paths == {<<"">>, <<"..">>} \cup {<<l>> : l \in Leaves}

S3TB == <<"3", "T", "B">>

EmptyBody == [kind |-> "empty", size |-> <<>>]
GarbageBody == [kind |-> "garbage", size |-> <<>>]
JSONBody(slug) == [kind |-> "json", size |-> slug]
\* A body without a size string, by its kind: "blank" is white space only,
\* "truncated" {"size": cut short, "badtype" {"size":1}, "nullsize"
\* {"size":null} and "null" the value null.
BodyOfKind(kind) == [kind |-> kind, size |-> <<>>]
\* No body, a body that is no JSON, "{}" and bodies with a size.
Bodies ==
    {EmptyBody, GarbageBody, JSONBody(<<>>),
     JSONBody(S256M), JSONBody(S1G), JSONBody(S3TB)}

\* A POST is given any body, a PUT a body with a slug or none, the other
\* requests none.
Requests ==
    {r \in [addr : Addrs, method : Methods, path : Paths, body : Bodies] :
        \/ r.method = "POST"
        \/ r.body = EmptyBody
        \/ r.method = "PUT" /\ r.body = JSONBody(S1G)}

RECURSIVE ZfsCommands(_)
ZfsCommands(calls) ==
    IF calls = <<>> THEN 0 ELSE Head(calls).cmds + ZfsCommands(Tail(calls))

\* The lifecycle client before its first request.
NoScript ==
    [stage |-> 0, addr |-> <<>>, leaf |-> "", slug |-> <<>>, fresh |-> FALSE,
     answers |-> <<>>]
\* The handler invocations that can be in flight at once.
Threads == {"t1", "t2"}

NoRequest == [addr |-> <<>>, method |-> "", path |-> <<>>, body |-> EmptyBody]

\* A thread is idle, between the probe and the rest of its handler
\* ("commit"), or done with its response written.  It remembers the threads
\* that were in flight on the same name when it began.
IdleThread ==
    [pc |-> "idle", req |-> NoRequest, name |-> <<>>, vol |-> NoVolume,
     calls |-> <<>>, code |-> 0, body |-> NoBody, logged |-> 0, with |-> {}]

NoThreads == [t \in Threads |-> IdleThread]

----------------------------------------------------------------------------
(* The sequential system: one request at a time *)

Init ==
    /\ datasets = [n \in DatasetNames |->
                     IF n = <<ZpoolName>> THEN [kind |-> "filesystem", size |-> 0]
                     ELSE NoDataset]
    /\ resp = <<>>
    /\ script = NoScript
    /\ thr = NoThreads

\* A body that lists the slugs lists them as Slugs returned them, for the
\* order in which the map range yielded the keys this time.
WithMapOrder(body, slugs) ==
    IF body.kind = "slugs" THEN SlugsBody(slugs) ELSE body

\* A request is served: StorageContext.ServeHTTP runs to its end.  The fault
\* plan is one the request runs into (a fault of a zfs command that is never
\* run is no fault).
Serve ==
    /\ resp = <<>>
    /\ \E r \in Requests, plan \in FaultPlans :
         \E out \in {ServeHTTP(datasets, r, plan)}, slugs \in SlugLists :
            /\ plan.at <= ZfsCommands(out.calls)
            /\ datasets' = out.ds
            /\ resp' = <<[req |-> r, plan |-> plan, name |-> out.name,
                          code |-> out.code,
                          body |-> WithMapOrder(out.body, slugs),
                          logged |-> out.logged, calls |-> out.calls,
                          pre |-> datasets]>>
    /\ UNCHANGED <<script, thr>>

\* The bodies of create requests, by what the JSON decoder makes of them.
CreateBodies ==
    Bodies \cup {BodyOfKind(k) :
                    k \in {"blank", "truncated", "badtype", "nullsize", "null"}}

CreateRequests ==
    [addr : {a \in Addrs : SplitHostPort(a).ok}, method : {"POST"},
     path : Paths, body : CreateBodies]

\* A create request is served.
ServeCreate ==
    /\ resp = <<>>
    /\ \E r \in CreateRequests, plan \in FaultPlans :
         \E out \in {ServeHTTP(datasets, r, plan)}, slugs \in SlugLists :
            /\ plan.at <= ZfsCommands(out.calls)
            /\ datasets' = out.ds
            /\ resp' = <<[req |-> r, plan |-> plan, name |-> out.name,
                          code |-> out.code,
                          body |-> WithMapOrder(out.body, slugs),
                          logged |-> out.logged, calls |-> out.calls,
                          pre |-> datasets]>>
    /\ UNCHANGED <<script, thr>>

\* The response reaches the client.
Deliver ==
    /\ resp # <<>>
    /\ resp' = <<>>
    /\ UNCHANGED <<datasets, script, thr>>

\* The operator of the pool creates a filesystem: a bucket, or a dataset
\* under a bucket that is no volume.
EnvCreateFilesystem(n) ==
    /\ resp = <<>>
    /\ Len(n) > 1
    /\ datasets[n].kind = "none"
    /\ datasets[Parent(n)].kind = "filesystem"
    /\ datasets' = [datasets EXCEPT ![n] = [kind |-> "filesystem", size |-> 0]]
    /\ UNCHANGED <<resp, script, thr>>

\* The operator of the pool creates a volume where a bucket would be.
EnvCreateBucketVolume(n) ==
    /\ resp = <<>>
    /\ Len(n) = 2
    /\ datasets[n].kind = "none"
    /\ datasets' = [datasets EXCEPT ![n] = [kind |-> "volume", size |-> 1 * GB]]
    /\ UNCHANGED <<resp, script, thr>>

\* The names that the operator of the pool gives to datasets: the buckets
\* and the first leaf name under each.
OperatorNames ==
    {<<ZpoolName, b>> : b \in Buckets} \cup {<<ZpoolName, b, LeafNames[1]>> : b \in Buckets}

Next ==
    \/ Serve
    \/ Deliver
    \/ \E n \in OperatorNames : EnvCreateFilesystem(n)
    \/ \E n \in OperatorNames : EnvCreateBucketVolume(n)

Spec == Init /\ [][Next]_vars

NextBodies == ServeCreate \/ Deliver

SpecBodies == Init /\ [][NextBodies]_vars

----------------------------------------------------------------------------
(* The lifecycle of one volume: a client creates a volume, repeats the     *)
(* create, reads the volume, deletes it and reads it again, while other    *)
(* requests are served in between.  The zfs commands run normally, and    *)
(* the operator of the pool provisions buckets only.                       *)

\* The slugs the lifecycle client asks for.
ValidSlugs == {S256M, S1G}

GoodAddrs == {a \in Addrs : SplitHostPort(a).ok}

LifeRequest(method, body) ==
    [addr |-> script.addr, method |-> method, path |-> <<script.leaf>>, body |-> body]

\* The script's request is served and its answer noted.
LifeServe(r, stage) ==
    \E out \in {ServeHTTP(datasets, r, NoPlan)} :
        /\ datasets' = out.ds
        /\ script' = [script EXCEPT
                        !.stage = stage,
                        !.answers = Append(@, [code |-> out.code, body |-> out.body])]
        /\ UNCHANGED <<resp, thr>>

\* The create: the start of a lifecycle.  It is fresh when no dataset has
\* the name and the client's bucket is not taken by a volume.
LifeCreate(addr, leaf, slug) ==
    /\ script.stage = 0
    /\ \E r \in {[addr |-> addr, method |-> "POST", path |-> <<leaf>>,
                  body |-> JSONBody(slug)]} :
       \E out \in {ServeHTTP(datasets, r, NoPlan)} :
        /\ datasets' = out.ds
        /\ script' = [stage |-> 1, addr |-> addr, leaf |-> leaf, slug |-> slug,
                      fresh |-> /\ Lookup(datasets, out.name).kind = "none"
                                /\ Lookup(datasets, Parent(out.name)).kind # "volume",
                      answers |-> <<[code |-> out.code, body |-> out.body]>>]
        /\ UNCHANGED <<resp, thr>>

LifeRepeat ==
    /\ script.stage = 1
    /\ LifeServe(LifeRequest("POST", JSONBody(script.slug)), 2)

LifeGet ==
    /\ script.stage = 2
    /\ LifeServe(LifeRequest("GET", EmptyBody), 3)

LifeDelete ==
    /\ script.stage = 3
    /\ LifeServe(LifeRequest("DELETE", EmptyBody), 4)

LifeGetAgain ==
    /\ script.stage = 4
    /\ LifeServe(LifeRequest("GET", EmptyBody), 5)

LifeDone ==
    /\ script.stage = 5
    /\ script' = NoScript
    /\ UNCHANGED <<datasets, resp, thr>>

\* The requests served in between: creates and deletes of any client, but
\* none on the path of a lifecycle under way.
OtherRequests ==
    {r \in Requests :
        /\ r.addr \in GoodAddrs
        /\ r.method \in {"POST", "DELETE"}
        /\ r.method = "POST" => r.body \in {JSONBody(g) : g \in ValidSlugs}}

Other(r) ==
    /\ script.stage = 0 \/ r.addr # script.addr \/ r.path # <<script.leaf>>
    /\ \E out \in {ServeHTTP(datasets, r, NoPlan)} :
        /\ out.ds # datasets
        /\ datasets' = out.ds
    /\ UNCHANGED <<resp, script, thr>>

NextLifecycle ==
    \/ \E a \in GoodAddrs, l \in Leaves, g \in ValidSlugs : LifeCreate(a, l, g)
    \/ LifeRepeat
    \/ LifeGet
    \/ LifeDelete
    \/ LifeGetAgain
    \/ LifeDone
    \/ \E r \in OtherRequests : Other(r)
    \/ \E b \in Buckets : EnvCreateFilesystem(<<ZpoolName, b>>)
    \/ \E b \in Buckets : EnvCreateBucketVolume(<<ZpoolName, b>>)

SpecLifecycle == Init /\ [][NextLifecycle]_vars

\* A client creates a volume, deletes it and creates it again with a slug
\* of its choice, while other requests are served in between.
ReDelete ==
    /\ script.stage = 1
    /\ LifeServe(LifeRequest("DELETE", EmptyBody), 7)

ReCreate(slug) ==
    /\ script.stage = 7
    /\ \E out \in {ServeHTTP(datasets, LifeRequest("POST", JSONBody(slug)), NoPlan)} :
        /\ datasets' = out.ds
        /\ script' = [script EXCEPT
                        !.stage = 8, !.slug = slug,
                        !.answers = Append(@, [code |-> out.code, body |-> out.body])]
        /\ UNCHANGED <<resp, thr>>

ReDone ==
    /\ script.stage = 8
    /\ script' = NoScript
    /\ UNCHANGED <<datasets, resp, thr>>

NextRecreate ==
    \/ \E a \in GoodAddrs, l \in Leaves, g \in ValidSlugs : LifeCreate(a, l, g)
    \/ ReDelete
    \/ \E g \in ValidSlugs : ReCreate(g)
    \/ ReDone
    \/ \E r \in OtherRequests : Other(r)
    \/ \E b \in Buckets : EnvCreateFilesystem(<<ZpoolName, b>>)
    \/ \E b \in Buckets : EnvCreateBucketVolume(<<ZpoolName, b>>)

SpecRecreate == Init /\ [][NextRecreate]_vars

----------------------------------------------------------------------------
(* Concurrent requests: one handler invocation per connection, the Pool    *)
(* shared without a lock.  A handler runs up to and with its first Pool    *)
(* call in one step, and the rest of it in another; the zfs commands run   *)
(* normally.                                                               *)

RaceLeaves == {LeafNames[1], LeafNames[2]}

RaceRequests ==
    {r \in Requests :
        /\ r.addr \in GoodAddrs
        /\ r.method \in {"POST", "DELETE", "GET"}
        /\ r.path \in {<<"">>, <<"..">>} \cup {<<l>> : l \in RaceLeaves}
        /\ r.method = "POST" => r.body \in {JSONBody(g) : g \in ValidSlugs}}

\* The thread as it is when its response is written.
Responded(t, r, out) ==
    [thr[t] EXCEPT !.pc = "done", !.req = r, !.name = out.name,
                   !.calls = out.calls, !.code = out.code, !.body = out.body,
                   !.logged = out.logged]

InFlightOn(t, name, method) ==
    {u \in Threads \ {t} :
        thr[u].pc = "commit" /\ thr[u].name = name /\ thr[u].req.method = method}

\* ServeHTTP up to and with the first Pool call of the handler.
RaceBegin(t, r) ==
    /\ thr[t].pc = "idle"
    /\ \E vn \in {volumeName(r)} :
        IF vn.ok /\ r.method \in {"POST", "DELETE"}
        THEN \E p \in {IF r.method = "POST"
                       THEN createProbe(datasets, vn.name, "ok")
                       ELSE destroyProbe(datasets, vn.name, "ok")} :
               /\ thr' = [thr EXCEPT ![t] =
                            IF p.done
                            THEN [Responded(t, r, Respond(r, NoPlan, vn.name, p.out))
                                    EXCEPT !.with = InFlightOn(t, vn.name, r.method)]
                            ELSE [thr[t] EXCEPT
                                    !.pc = "commit", !.req = r, !.name = vn.name,
                                    !.vol = p.vol, !.calls = p.out.calls,
                                    !.with = InFlightOn(t, vn.name, r.method)]]
               /\ UNCHANGED datasets
        ELSE \E out \in {ServeHTTP(datasets, r, NoPlan)} :
               /\ thr' = [thr EXCEPT ![t] = Responded(t, r, out)]
               /\ datasets' = out.ds
    /\ UNCHANGED <<resp, script>>

\* The rest of createVolume or destroyVolume, and the end of ServeHTTP.
RaceCommit(t) ==
    /\ thr[t].pc = "commit"
    /\ \E h \in {IF thr[t].req.method = "POST"
                 THEN createCommit(datasets, thr[t].name, thr[t].req, "ok",
                                   thr[t].calls)
                 ELSE destroyCommit(datasets, thr[t].vol, "ok", thr[t].calls)} :
         /\ thr' = [thr EXCEPT ![t] =
                      Responded(t, thr[t].req,
                                Respond(thr[t].req, NoPlan, thr[t].name, h))]
         /\ datasets' = h.ds
    /\ UNCHANGED <<resp, script>>

\* The response reaches the client and the connection is done.
RaceRelease(t) ==
    /\ thr[t].pc = "done"
    /\ thr' = [u \in Threads |->
                 IF u = t THEN IdleThread
                 ELSE [thr[u] EXCEPT !.with = @ \ {t}]]
    /\ UNCHANGED <<datasets, resp, script>>

NextRace ==
    \/ \E t \in Threads, r \in RaceRequests : RaceBegin(t, r)
    \/ \E t \in Threads : RaceCommit(t)
    \/ \E t \in Threads : RaceRelease(t)

SpecRace == Init /\ [][NextRace]_vars

\* Two DELETE requests for one volume in flight at once.  The volume is one
\* that requests have created; each of the two handlers runs once, its two
\* steps interleaved with those of the other in any order, while requests
\* on other names are served.
DeleteRaceStart(addr, leaf) ==
    /\ script.stage = 0
    /\ \A t \in Threads : thr[t].pc = "idle"
    /\ \E vn \in {volumeName([addr |-> addr, method |-> "DELETE",
                               path |-> <<leaf>>, body |-> EmptyBody])} :
         vn.ok /\ Lookup(datasets, vn.name).kind = "volume"
    /\ script' = [NoScript EXCEPT !.stage = 9, !.addr = addr, !.leaf = leaf]
    /\ UNCHANGED <<datasets, resp, thr>>

DeleteRaceBegin(t) ==
    /\ script.stage = 9
    /\ RaceBegin(t, LifeRequest("DELETE", EmptyBody))

DeleteRaceCommit(t) ==
    /\ script.stage = 9
    /\ RaceCommit(t)

DeleteRaceDone ==
    /\ script.stage = 9
    /\ \A t \in Threads : thr[t].pc = "done"
    /\ script' = NoScript
    /\ thr' = NoThreads
    /\ UNCHANGED <<datasets, resp>>

NextDeleteRace ==
    \/ \E a \in GoodAddrs, l \in Leaves : DeleteRaceStart(a, l)
    \/ \E t \in Threads : DeleteRaceBegin(t)
    \/ \E t \in Threads : DeleteRaceCommit(t)
    \/ DeleteRaceDone
    \/ \E r \in OtherRequests : Other(r)

SpecDeleteRace == Init /\ [][NextDeleteRace]_vars

----------------------------------------------------------------------------
(* Vocabulary of the properties *)

\* A request has been served and its response is on its way: resp[1] is its
\* record, resp[1].pre the pool it met and datasets the pool it left.
Served == resp # <<>>

HasCall(R, op) == \E i \in 1..Len(R.calls) : R.calls[i].op = op

AddrOK(R) == SplitHostPort(R.req.addr).ok

\* pool/bucket of the client that sent the request.
BucketOf(R) == <<ZpoolName, MD5Hex(SplitHostPort(R.req.addr).host)>>

\* The volumes of a bucket, as the entries a listing should carry.
VolumesIn(ds, bucket) ==
    {[name |-> l, size |-> ds[Append(bucket, l)].size] :
        l \in {m \in Leaves : ds[Append(bucket, m)].kind = "volume"}}

Range(seq) == {seq[i] : i \in 1..Len(seq)}

----------------------------------------------------------------------------
(* Properties of single requests *)

\* C2: a create request whose name already is a volume of the pool is
\* answered 409 whatever its body, Pool.CreateVolume is not invoked and the
\* pool is left as it was (the probe's zfs command running normally).
C2Case(R, pre, post) ==
    (/\ R.req.method = "POST" /\ AddrOK(R) /\ Depth(R.name) = 3
     /\ Lookup(pre, R.name).kind = "volume"
     /\ R.plan.at # 1)
    => (/\ R.code = StatusConflict
        /\ ~HasCall(R, "CreateVolume")
        /\ post = pre)

C2_ExistingCreateIs409 == Served => C2Case(resp[1], resp[1].pre, datasets)

C2_Witness ==
    /\ resp # <<>>
    /\ resp[1].req.method = "POST"
    /\ resp[1].req.body = JSONBody(S3TB)
    /\ resp[1].code = StatusConflict
    /\ Lookup(datasets, resp[1].name).kind = "volume"

\* C4: a DELETE whose name is no volume of the pool (Pool.Volume reports
\* ErrVolumeNotExists) is answered 404, Volume.Destroy is not invoked and
\* the pool is left as it was.
C4Case(R, pre, post) ==
    (/\ R.req.method = "DELETE" /\ AddrOK(R)
     /\ Lookup(pre, R.name).kind # "volume"
     /\ R.plan.at # 1)
    => (/\ R.code = StatusNotFound
        /\ R.calls = <<Call("Volume", R.name, 0, ErrVolumeNotExists, 1)>>
        /\ ~HasCall(R, "Destroy")
        /\ post = pre)

C4_DeleteAbsentIs404 == Served => C4Case(resp[1], resp[1].pre, datasets)

C4_Witness ==
    /\ resp # <<>>
    /\ resp[1].req.method = "DELETE"
    /\ Depth(resp[1].name) = 3
    /\ datasets[resp[1].name].kind = "filesystem"
    /\ resp[1].code = StatusNotFound

\* C5 (as claimed): a request whose name has a depth other than 2 or 3 is
\* answered 404 whatever its method, and makes no Pool or Volume call.
C5_OtherDepthIs404NoCall ==
    (resp # <<>> /\ AddrOK(resp[1]) /\ Depth(resp[1].name) \notin {2, 3})
    => (resp[1].code = StatusNotFound /\ resp[1].calls = <<>>)

\* C6 (as claimed): a create or DELETE request whose name has depth 2 never
\* invokes Pool.CreateVolume or Volume.Destroy and never changes the pool.
C6_BucketLevelNeverMutates ==
    (/\ resp # <<>> /\ AddrOK(resp[1]) /\ Depth(resp[1].name) = 2
     /\ resp[1].req.method \in {"POST", "PUT", "DELETE"})
    => (/\ ~HasCall(resp[1], "CreateVolume")
        /\ ~HasCall(resp[1], "Destroy")
        /\ datasets = resp[1].pre)

\* C7 (as claimed): every Pool and Volume call of a request targets the
\* client's bucket or a name directly under it, and a request changes no
\* dataset in another client's bucket.
C7Case(R, pre, post) ==
    AddrOK(R) =>
        /\ \A i \in 1..Len(R.calls) :
              \/ R.calls[i].name = BucketOf(R)
              \/ /\ Len(R.calls[i].name) = 3
                 /\ Parent(R.calls[i].name) = BucketOf(R)
        /\ \A n \in DOMAIN pre :
              (Len(n) > 1 /\ ~IsUnder(n, BucketOf(R))) => post[n] = pre[n]

C7_ClientIsolation == Served => C7Case(resp[1], resp[1].pre, datasets)

\* A listing request: a GET whose name has depth 2.
IsListing(R) == R.req.method = "GET" /\ AddrOK(R) /\ Depth(R.name) = 2

\* C8 (as claimed): a listing of a bucket that was never provisioned
\* (Pool.ListVolumes reports ErrVolumeNotExists) is answered 404.
C8_UnprovisionedListIs404 ==
    (/\ resp # <<>> /\ IsListing(resp[1])
     /\ resp[1].calls = <<Call("ListVolumes", resp[1].name, 0, ErrVolumeNotExists, 1)>>)
    => resp[1].code = StatusNotFound

\* C8 (amended): a listing of a bucket that was never provisioned
\* (Pool.ListVolumes reports ErrVolumeNotExists) is answered 200 with an
\* empty volumes array, as a provisioned bucket without volumes is.
C8Case(R, pre, post) ==
    (IsListing(R) /\ Lookup(pre, R.name).kind = "none" /\ R.plan.at = 0)
    => (/\ R.calls = <<Call("ListVolumes", R.name, 0, ErrVolumeNotExists, 1)>>
        /\ R.code = StatusOK
        /\ R.body = Marshal([nil |-> FALSE, elems |-> <<>>])
        /\ R.logged = 0
        /\ post = pre)

C8_UnprovisionedListIs200Empty ==
    Served => C8Case(resp[1], resp[1].pre, datasets)

C8_Witness ==
    /\ resp # <<>> /\ IsListing(resp[1])
    /\ datasets[resp[1].name].kind = "none"
    /\ resp[1].calls = <<Call("ListVolumes", resp[1].name, 0, ErrVolumeNotExists, 1)>>
    /\ resp[1].code = StatusOK

\* C9: for a bucket that exists and holds no volume, Pool.ListVolumes
\* returns an empty sequence and no error, and the listing is answered 200
\* with a volumes array of length 0 that is not null.
C9Case(R, pre, post) ==
    (/\ IsListing(R) /\ R.plan.at = 0
     /\ Lookup(pre, R.name).kind # "none"
     /\ VolumesIn(pre, R.name) = {})
    => (/\ PoolListVolumes(pre, R.name, "ok", "ok").err = NilErr
        /\ PoolListVolumes(pre, R.name, "ok", "ok").elems = <<>>
        /\ R.calls = <<Call("ListVolumes", R.name, 0, NilErr, 2)>>
        /\ R.code = StatusOK
        /\ R.body.kind = "json" /\ ~R.body.null /\ Len(R.body.volumes) = 0)

C9_EmptyBucketListIs200Empty ==
    Served => C9Case(resp[1], resp[1].pre, datasets)

\* A bucket whose only child is a dataset that is no volume is listed.
C9_Witness ==
    /\ resp # <<>> /\ IsListing(resp[1])
    /\ resp[1].code = StatusOK
    /\ resp[1].body.volumes = <<>>
    /\ \E l \in Leaves : datasets[Append(resp[1].name, l)].kind = "filesystem"

\* C10: a listing (its zfs commands running normally) is answered 200 with
\* exactly one entry per volume of the client's bucket, carrying the leaf
\* name and the size of the volume, and no entry for anything else.
C10Case(R, pre, post) ==
    (IsListing(R) /\ R.plan.at = 0)
    => (/\ R.code = StatusOK
        /\ R.body.kind = "json" /\ ~R.body.null
        /\ Range(R.body.volumes) = VolumesIn(pre, BucketOf(R))
        /\ Len(R.body.volumes) = Cardinality(VolumesIn(pre, BucketOf(R))))

C10_ListingIsExact == Served => C10Case(resp[1], resp[1].pre, datasets)

\* Two volumes of the client are listed while the other bucket holds one.
C10_Witness ==
    /\ resp # <<>> /\ IsListing(resp[1])
    /\ resp[1].code = StatusOK
    /\ Len(resp[1].body.volumes) = 2
    /\ resp[1].body.volumes[1].size # resp[1].body.volumes[2].size
    /\ \E b \in Buckets :
          /\ <<ZpoolName, b>> # resp[1].name
          /\ VolumesIn(datasets, <<ZpoolName, b>>) # {}

----------------------------------------------------------------------------
(* The lifecycle *)

LifeName == <<ZpoolName, MD5Hex(SplitHostPort(script.addr).host), script.leaf>>

\* The answers the lifecycle expects, in order.
ExpectedCodes ==
    <<StatusCreated, StatusConflict, StatusOK, StatusNoContent, StatusNotFound>>

\* C1: for a leaf name that no dataset has, the create is answered 201, the
\* repeated create 409, the GET 200 with the size of the slug of the create,
\* the DELETE 204 and the GET after it 404.
C1_Lifecycle ==
    script.fresh =>
        /\ \A i \in 1..Len(script.answers) :
              script.answers[i].code = ExpectedCodes[i]
        /\ Len(script.answers) >= 3 =>
              script.answers[3].body =
                  Marshal([nil |-> FALSE,
                           elems |-> <<[name |-> script.leaf,
                                        size |-> SlugSize(script.slug).size]>>])
        /\ script.stage \in {1, 2, 3} =>
              datasets[LifeName] = [kind |-> "volume",
                                    size |-> SlugSize(script.slug).size]
        /\ script.stage \in {4, 5} => datasets[LifeName].kind # "volume"

\* A lifecycle is through while the other client holds a volume.
C1_Witness ==
    /\ script.stage = 5
    /\ script.fresh
    /\ script.slug = S1G
    /\ \E n \in DOMAIN datasets :
          datasets[n].kind = "volume" /\ ~IsUnder(n, Parent(LifeName))

----------------------------------------------------------------------------
(* Concurrent creates *)

\* Two finished create requests for one name with valid slugs, the second
\* begun while the first was between its probe and its Pool.CreateVolume.
RacedCreates(t, u) ==
    /\ t # u
    /\ thr[t].pc = "done" /\ thr[u].pc = "done"
    /\ u \in thr[t].with
    /\ thr[t].req.method = "POST" /\ thr[u].req.method = "POST"
    /\ thr[t].name = thr[u].name /\ Depth(thr[t].name) = 3

\* C3 (as claimed): of two concurrent create requests for one name, against
\* a pool whose CreateVolume fails if the name exists, exactly one is
\* answered 201 and the other 409, and one volume has the name afterwards.
C3_RacedCreateIs201And409 ==
    \A t, u \in Threads :
        RacedCreates(t, u) =>
            /\ {thr[t].code, thr[u].code} = {StatusCreated, StatusConflict}
            /\ datasets[thr[t].name].kind = "volume"

----------------------------------------------------------------------------
(* volumeName as a function: two requests and the names derived for them *)

NameHosts == Hosts \cup {"10.0.0.3"}
NamePorts == {Port, "4001"}

NameAddrs == {<<h, ":", p>> : h \in NameHosts, p \in NamePorts} \cup {<<"10.0.0.1">>}

\* Paths after the route prefix: none, "..", a leaf, a leaf with a slash
\* after it and a leaf with a segment before it.
NamePaths ==
    {<<"">>, <<"..">>, <<LeafNames[1]>>, <<LeafNames[2]>>,
     <<LeafNames[1], "">>, <<"x", LeafNames[1]>>}

NameRequests ==
    [addr : NameAddrs, method : {"GET", "POST"}, path : NamePaths, body : {EmptyBody}]

\* volumeName is applied to two requests.
Derive ==
    /\ resp = <<>>
    /\ \E a \in NameRequests, b \in NameRequests :
         resp' = <<[a |-> a, b |-> b, na |-> volumeName(a), nb |-> volumeName(b)]>>
    /\ UNCHANGED <<datasets, script, thr>>

NextNames == Derive \/ Deliver

SpecNames == Init /\ [][NextNames]_vars

\* The host part of the address of a request, as the client sent it.
HostOf(r) == r.addr[1]

\* C11: volumeName is a function of the pool name, the host of the client
\* address and the final segment of the path only: equal requests give equal
\* names, requests of one host with the same final segment give the same
\* name whatever their ports and methods, names of one host carry the same
\* bucket segment and names of different hosts carry different ones.
C11_NameOfHostAndLeafOnly ==
    resp # <<>> =>
        LET P == resp[1]
        IN  /\ (P.a.addr = P.b.addr /\ P.a.path = P.b.path) => P.na = P.nb
            /\ P.na.ok <=> Len(P.a.addr) = 3
            /\ (P.na.ok /\ P.nb.ok) =>
                 /\ P.na.name[1] = ZpoolName
                 /\ (HostOf(P.a) = HostOf(P.b) /\ Base(P.a.path) = Base(P.b.path))
                        => P.na.name = P.nb.name
                 /\ (Depth(P.na.name) >= 2 /\ Depth(P.nb.name) >= 2)
                        => (P.na.name[2] = P.nb.name[2] <=> HostOf(P.a) = HostOf(P.b))

\* Two requests of one host from different ports, with different paths of
\* the same final segment, are given the same depth-3 name.
C11_Witness ==
    /\ resp # <<>>
    /\ resp[1].a.addr[1] = resp[1].b.addr[1]
    /\ resp[1].a.addr # resp[1].b.addr
    /\ resp[1].a.path # resp[1].b.path
    /\ resp[1].na.ok
    /\ Depth(resp[1].na.name) = 3
    /\ resp[1].na = resp[1].nb

----------------------------------------------------------------------------
(* Errors of single requests *)

\* C12: a request whose client address cannot be split into host and port
\* is answered 500 whatever its method and path, makes no Pool or Volume
\* call and leaves the pool as it was.
C12Case(R, pre, post) ==
    Len(R.req.addr) # 3
    => (/\ R.code = StatusInternalServerError
        /\ R.logged = 1
        /\ R.calls = <<>>
        /\ post = pre)

C12_BadAddressIs500NoCall == Served => C12Case(resp[1], resp[1].pre, datasets)

\* A DELETE of a leaf from an address without a port.
C12_Witness ==
    /\ Served
    /\ Len(resp[1].req.addr) # 3
    /\ resp[1].req.method = "DELETE"
    /\ resp[1].req.path = <<LeafNames[1]>>
    /\ resp[1].code = StatusInternalServerError

\* A create request for a depth-3 name that no dataset has, whose probe runs
\* normally.
IsCreateOfAbsent(R, pre) ==
    /\ R.req.method = "POST" /\ AddrOK(R) /\ Depth(R.name) = 3
    /\ Lookup(pre, R.name).kind = "none"
    /\ R.plan.at # 1

\* The six valid slugs in the order of their sizes.
SortedSlugs == <<S256M, S512M, S1G, S2G, S4G, S8G>>

\* C13: a create request for an absent depth-3 name whose body carries a
\* size that is no catalog slug is answered 400 with a body that lists the
\* six slugs 256M, 512M, 1G, 2G, 4G, 8G in that order (whatever the order in
\* which the map yields them); Pool.CreateVolume is not invoked and the pool
\* is left as it was.
C13Case(R, pre, post) ==
    (/\ IsCreateOfAbsent(R, pre)
     /\ R.req.body.kind = "json"
     /\ R.req.body.size \notin CatalogKeys)
    => (/\ R.code = StatusBadRequest
        /\ R.body = SlugsBody(SortedSlugs)
        /\ ~HasCall(R, "CreateVolume")
        /\ post = pre)

C13_UnknownSlugIs400WithSlugs == Served => C13Case(resp[1], resp[1].pre, datasets)

C13_Witness ==
    /\ Served
    /\ IsCreateOfAbsent(resp[1], resp[1].pre)
    /\ resp[1].req.body = JSONBody(S3TB)
    /\ resp[1].code = StatusBadRequest
    /\ Len(resp[1].body.slugs) = 6

\* C14: a create request for an absent depth-3 name that has no body is
\* answered 400 with the list of the slugs, not 500, and no volume is
\* created.
C14Case(R, pre, post) ==
    (IsCreateOfAbsent(R, pre) /\ R.req.body = EmptyBody)
    => (/\ R.code = StatusBadRequest
        /\ R.body = SlugsBody(SortedSlugs)
        /\ R.logged = 0
        /\ ~HasCall(R, "CreateVolume")
        /\ post = pre)

C14_NoBodyIs400 == Served => C14Case(resp[1], resp[1].pre, datasets)

C14_Witness ==
    /\ Served
    /\ IsCreateOfAbsent(resp[1], resp[1].pre)
    /\ resp[1].req.body = EmptyBody
    /\ resp[1].code = StatusBadRequest
    /\ resp[1].body.kind = "slugs"

\* The requested size of a create request whose body carries a valid slug.
HasValidSlug(R) == R.req.body.kind = "json" /\ R.req.body.size \in CatalogKeys

SizeAsked(R) == SlugSize(R.req.body.size).size

\* The number of calls of an operation that a request made.
CountCalls(R, op) == Cardinality({i \in 1..Len(R.calls) : R.calls[i].op = op})

\* The body with one volume: {"volumes":[{"name":name,"size":size}]}.
OneVolumeBody(name, size) ==
    [kind |-> "json", text |-> "", slugs |-> <<>>,
     volumes |-> <<[name |-> name, size |-> size]>>, null |-> FALSE]

\* C15: a create request with a valid slug for an absent name, whose
\* Pool.CreateVolume reports ErrPoolOutOfSpace, is answered 503 with an
\* empty body, and no volume has the name afterwards.
C15Case(R, pre, post) ==
    (/\ IsCreateOfAbsent(R, pre) /\ HasValidSlug(R)
     /\ R.plan = [at |-> 2, fault |-> "nospace"])
    => (/\ R.calls[Len(R.calls)] =
              Call("CreateVolume", R.name, SizeAsked(R), ErrPoolOutOfSpace, 1)
        /\ R.code = StatusServiceUnavailable
        /\ R.body = NoBody
        /\ R.logged = 0
        /\ Lookup(post, R.name).kind = "none"
        /\ post = pre)

C15_OutOfSpaceIs503 == Served => C15Case(resp[1], resp[1].pre, datasets)

C15_Witness ==
    /\ Served
    /\ IsCreateOfAbsent(resp[1], resp[1].pre) /\ HasValidSlug(resp[1])
    /\ resp[1].plan = [at |-> 2, fault |-> "nospace"]
    /\ resp[1].code = StatusServiceUnavailable

\* A request with a well-formed address for a depth-3 name, whose zfs
\* commands run normally and whose body carries a valid slug, in a bucket
\* that is no volume.
IsPlainCreate(R, pre, method) ==
    /\ R.req.method = method /\ AddrOK(R) /\ Depth(R.name) = 3
    /\ R.plan.at = 0 /\ HasValidSlug(R)
    /\ Lookup(pre, Parent(R.name)).kind # "volume"

CreatesOrConflicts(R, pre, post) ==
    /\ Lookup(pre, R.name).kind = "none" =>
          /\ R.code = StatusCreated
          /\ post[R.name] = [kind |-> "volume", size |-> SizeAsked(R)]
    /\ Lookup(pre, R.name).kind = "volume" =>
          /\ R.code = StatusConflict
          /\ post = pre

\* C16 (as claimed): POST and PUT both create: each is answered 201 and
\* creates the volume when the name is absent, and each is answered 409 when
\* the volume exists.
C16_PostAndPutCreate ==
    (Served /\ (\/ IsPlainCreate(resp[1], resp[1].pre, "POST")
                \/ IsPlainCreate(resp[1], resp[1].pre, "PUT")))
    => CreatesOrConflicts(resp[1], resp[1].pre, datasets)

\* C16 (amended): POST alone creates: it is answered 201 and creates the
\* volume when the name is absent and is answered 409 when the volume
\* exists; a PUT is answered 405, makes no call and changes nothing.
C16Case(R, pre, post) ==
    /\ IsPlainCreate(R, pre, "POST") => CreatesOrConflicts(R, pre, post)
    /\ IsPlainCreate(R, pre, "PUT") =>
          /\ R.code = StatusMethodNotAllowed
          /\ R.calls = <<>>
          /\ post = pre

C16_OnlyPostCreates == Served => C16Case(resp[1], resp[1].pre, datasets)

\* A PUT with a valid slug for an absent name.
C16_Witness ==
    /\ Served
    /\ IsPlainCreate(resp[1], resp[1].pre, "PUT")
    /\ Lookup(resp[1].pre, resp[1].name).kind = "none"
    /\ resp[1].code = StatusMethodNotAllowed

\* C17: a request with a well-formed address whose method is none of GET,
\* POST and DELETE is answered 405 and makes no Pool or Volume call.
C17Case(R, pre, post) ==
    (AddrOK(R) /\ R.req.method \notin {"GET", "POST", "DELETE"})
    => (/\ R.code = StatusMethodNotAllowed
        /\ R.body = TextBody("method not allowed")
        /\ R.calls = <<>>
        /\ post = pre)

C17_OtherMethodIs405 == Served => C17Case(resp[1], resp[1].pre, datasets)

\* A PATCH on the path of a volume that exists.
C17_Witness ==
    /\ Served
    /\ resp[1].req.method = "PATCH"
    /\ AddrOK(resp[1])
    /\ Lookup(datasets, resp[1].name).kind = "volume"
    /\ resp[1].code = StatusMethodNotAllowed

C18Case(R, pre, post) ==
    R.code = StatusCreated
    => (/\ HasValidSlug(R)
        /\ R.body = OneVolumeBody(R.name[3], SizeAsked(R))
        /\ R.name[3] = R.req.path[Len(R.req.path)]
        /\ post[R.name] = [kind |-> "volume", size |-> SizeAsked(R)])

C19Case(R, pre, post) ==
    (R.req.method = "GET" /\ AddrOK(R) /\ Depth(R.name) = 3)
    => (/\ Len(R.calls) = 1
        /\ R.calls[1].op = "Volume" /\ R.calls[1].name = R.name
        /\ post = pre
        /\ R.plan.at = 0 =>
              IF Lookup(pre, R.name).kind = "volume"
              THEN /\ R.calls[1].err = NilErr.kind
                   /\ R.code = StatusOK
                   /\ R.body = OneVolumeBody(R.name[3], pre[R.name].size)
              ELSE R.calls[1].err = ErrVolumeNotExists.kind
        /\ R.code = StatusNotFound <=> R.calls[1].err = ErrVolumeNotExists.kind
        /\ R.code = StatusOK <=> R.calls[1].err = NilErr.kind
        /\ R.calls[1].err \notin {NilErr.kind, ErrVolumeNotExists.kind} =>
              R.code = StatusInternalServerError /\ R.logged = 1)

C19_ItemGet == Served => C19Case(resp[1], resp[1].pre, datasets)

\* A GET of a volume that exists fails in zfs.
C19_Witness ==
    /\ Served
    /\ resp[1].req.method = "GET" /\ Depth(resp[1].name) = 3
    /\ Lookup(datasets, resp[1].name).kind = "volume"
    /\ resp[1].plan.at = 1
    /\ resp[1].code = StatusInternalServerError

\* C20: a DELETE of a volume that exists whose Destroy fails is answered
\* 500, and Volume.Destroy is invoked once for it.
C20Case(R, pre, post) ==
    (/\ R.req.method = "DELETE" /\ AddrOK(R)
     /\ Lookup(pre, R.name).kind = "volume"
     /\ R.plan.at = 2)
    => (/\ R.code = StatusInternalServerError
        /\ R.logged = 1
        /\ CountCalls(R, "Destroy") = 1
        /\ R.calls[Len(R.calls)].err # NilErr.kind)

C20_FailedDestroyIs500Once == Served => C20Case(resp[1], resp[1].pre, datasets)

\* After the failed DELETE the volume is there, and a GET of the same path
\* is answered 200.
C20_Witness ==
    /\ Served
    /\ resp[1].req.method = "DELETE" /\ Depth(resp[1].name) = 3
    /\ resp[1].plan.at = 2
    /\ resp[1].code = StatusInternalServerError
    /\ datasets[resp[1].name].kind = "volume"
    /\ ServeHTTP(datasets, [resp[1].req EXCEPT !.method = "GET"], NoPlan).code
          = StatusOK

----------------------------------------------------------------------------
(* What the client and the log see of an error *)

\* What the handler tells apart in the error of a Pool or Volume call: none,
\* the two errors the Pool names, or any other error.
ErrClass(kind) ==
    IF kind \in {NilErr.kind, ErrVolumeNotExists.kind, ErrPoolOutOfSpace.kind}
    THEN kind ELSE "other"

CallClasses(calls) ==
    [i \in 1..Len(calls) |->
        [op |-> calls[i].op, name |-> calls[i].name, size |-> calls[i].size,
         class |-> ErrClass(calls[i].err)]]

\* The messages of http.Error in ServeHTTP.
FixedMessages == {"internal server error", "method not allowed"}

\* C21: the response does not depend on the detail of a backend error: the
\* same request on the same pool, with another error in the place of the
\* one a Pool or Volume call returned, is given the same status and body;
\* a 500 always carries the one fixed message and a text body is always one
\* of the fixed messages.
C21Case(R, pre, post) ==
    /\ R.code = StatusInternalServerError =>
          R.body = TextBody("internal server error")
    /\ R.body.kind = "text" => R.body.text \in FixedMessages
    /\ R.plan.at > 0 =>
          \A g \in Faults \ {"ok"} :
              LET o == ServeHTTP(pre, R.req, [at |-> R.plan.at, fault |-> g])
              IN  CallClasses(o.calls) = CallClasses(R.calls)
                  => (o.code = R.code /\ o.body = R.body)

C21_BodyHidesErrorDetail == Served => C21Case(resp[1], resp[1].pre, datasets)

\* A probe fails with a zfs error where another run fails with another
\* error.
C21_Witness ==
    /\ Served
    /\ resp[1].plan = [at |-> 1, fault |-> "denied"]
    /\ resp[1].calls[1].err = ZfsError(StderrDenied).kind
    /\ ServeHTTP(resp[1].pre, resp[1].req, [at |-> 1, fault |-> "exec"]).calls[1].err
          = ExecError.kind
    /\ resp[1].code = StatusInternalServerError

\* C22: a request writes one log line when it is answered 500 and none
\* when it is answered with any other status.
C22Case(R, pre, post) ==
    /\ R.logged \in {0, 1}
    /\ R.logged = 1 <=> R.code = StatusInternalServerError
    /\ R.code = StatusInternalServerError <=>
          \/ ~AddrOK(R)
          \/ R.calls # <<>> /\ ErrClass(R.calls[Len(R.calls)].err) = "other"
          \/ R.req.method = "POST" /\ R.req.body = GarbageBody
               /\ Len(R.calls) = 1 /\ R.calls[1].err = ErrVolumeNotExists.kind

C22_LoggedOnceIff500 == Served => C22Case(resp[1], resp[1].pre, datasets)

\* A Destroy that fails is logged.
C22_Witness ==
    /\ Served
    /\ resp[1].req.method = "DELETE"
    /\ Len(resp[1].calls) = 2
    /\ resp[1].code = StatusInternalServerError
    /\ resp[1].logged = 1

----------------------------------------------------------------------------
(* The size catalog as functions: SlugSize, Slugs and bySizeSlug.Less are  *)
(* applied to strings, map orders and slugs drawn from bounded sets.       *)

MaxSlugLen == 3

SlugChars == {"1", "2", "5", "6", "G", "M", "m", "B"}

RECURSIVE StringsUpTo(_)
StringsUpTo(n) ==
    IF n = 0 THEN {<<>>}
    ELSE LET shorter == StringsUpTo(n - 1)
         IN  shorter \cup {Append(t, c) : t \in shorter, c \in SlugChars}

\* The strings that are looked up: every string over SlugChars up to
\* MaxSlugLen, the catalog keys, and keys with a change, an extension or
\* another magnitude.
SlugInputs ==
    StringsUpTo(MaxSlugLen) \cup CatalogKeys
        \cup {<<"2", "5", "6", "m">>, <<"2", "5", "6", "M", "B">>,
              <<"2", "5", "6", " ">>, <<"3", "G">>, <<"1", "G", "B">>, S3TB}

\* The suffixes in the order of their precedence.
Suffixes == <<"B", "K", "M", "G", "T", "P", "E", "Z", "Y">>

Magnitudes ==
    {[text |-> <<"1">>, value |-> 1], [text |-> <<"2">>, value |-> 2],
     [text |-> <<"9">>, value |-> 9], [text |-> <<"1", "0">>, value |-> 10],
     [text |-> <<"0", "1">>, value |-> 1]}

\* Well-formed slugs, with the rank of the suffix and the value of the
\* magnitude that they are written from.
WellFormedSlugs ==
    {[slug |-> Append(m.text, Suffixes[i]), rank |-> i, value |-> m.value,
      wellformed |-> TRUE] : m \in Magnitudes, i \in DOMAIN Suffixes}

\* Malformed slugs: empty, without a suffix, with an unknown suffix, without
\* a magnitude and with a magnitude that is no number.
MalformedSlugs ==
    {[slug |-> t, rank |-> 0, value |-> 0, wellformed |-> FALSE] :
        t \in {<<>>, <<"2", "5", "6">>, <<"1", "X">>, <<"1", "g">>, <<"G">>,
               <<"x", "G">>, <<"1", ".", "5", "G">>, <<"-", "1", "M">>}}

\* SlugSize is applied to a string.
Resolve ==
    /\ resp = <<>>
    /\ \E t \in SlugInputs :
         resp' = <<[kind |-> "resolve", slug |-> t, out |-> SlugSize(t)]>>
    /\ UNCHANGED <<datasets, script, thr>>

\* Slugs is called, the map range yielding the keys in some order.
Sort ==
    /\ resp = <<>>
    /\ \E o \in MapOrders :
         resp' = <<[kind |-> "sort", order |-> o, out |-> SlugsFrom(o)]>>
    /\ UNCHANGED <<datasets, script, thr>>

\* Less is applied to two slugs, both ways.
Compare ==
    /\ resp = <<>>
    /\ \E a \in WellFormedSlugs \cup MalformedSlugs,
          b \in WellFormedSlugs \cup MalformedSlugs :
         resp' = <<[kind |-> "compare", a |-> a, b |-> b,
                    ab |-> Less(a.slug, b.slug), ba |-> Less(b.slug, a.slug)]>>
    /\ UNCHANGED <<datasets, script, thr>>

\* Less is applied along a chain of three well-formed slugs.
Chain ==
    /\ resp = <<>>
    /\ \E a \in WellFormedSlugs, b \in WellFormedSlugs, c \in WellFormedSlugs :
         resp' = <<[kind |-> "chain", a |-> a, b |-> b, c |-> c,
                    ab |-> Less(a.slug, b.slug), bc |-> Less(b.slug, c.slug),
                    ac |-> Less(a.slug, c.slug)]>>
    /\ UNCHANGED <<datasets, script, thr>>

NextSlugs == Resolve \/ Sort \/ Compare \/ Chain \/ Deliver

SpecSlugs == Init /\ [][NextSlugs]_vars

Did(kind) == resp # <<>> /\ resp[1].kind = kind

\* C23 (sizes in MiB, MB being one MiB of 1024 * 1024 bytes): SlugSize
\* finds each of the six catalog slugs with its exact size, 256M = 256 MiB,
\* 512M = 512 MiB, 1G = 1024 MiB, 2G = 2048 MiB, 4G = 4096 MiB, 8G = 8192
\* MiB, and reports every other string as not found with size 0, a prefix
\* and an extension of a slug and a slug in another case included.
C23Case(R) ==
    /\ R.slug = S256M => R.out = [size |-> 256 * MB, ok |-> TRUE]
    /\ R.slug = S512M => R.out = [size |-> 512 * MB, ok |-> TRUE]
    /\ R.slug = S1G => R.out = [size |-> 1024 * MB, ok |-> TRUE]
    /\ R.slug = S2G => R.out = [size |-> 2 * 1024 * MB, ok |-> TRUE]
    /\ R.slug = S4G => R.out = [size |-> 4 * 1024 * MB, ok |-> TRUE]
    /\ R.slug = S8G => R.out = [size |-> 8 * 1024 * MB, ok |-> TRUE]
    /\ R.slug \notin {S256M, S512M, S1G, S2G, S4G, S8G}
          => R.out = [size |-> 0, ok |-> FALSE]

C23_SlugSizeIsExactMatch == Did("resolve") => C23Case(resp[1])

\* The prefix 256 of the slug 256M was looked up and not found.
C23_Witness ==
    /\ Did("resolve")
    /\ resp[1].slug = <<"2", "5", "6">>
    /\ ~resp[1].out.ok

\* C24: Slugs returns the six catalog keys, each once, in the order 256M,
\* 512M, 1G, 2G, 4G, 8G, in whatever order the map range yields them.
C24Case(R) ==
    /\ R.out = SortedSlugs
    /\ Len(R.out) = Cardinality(CatalogKeys)
    /\ \A k \in CatalogKeys : Cardinality({i \in DOMAIN R.out : R.out[i] = k}) = 1

C24_SlugsOrderedWhateverMapOrder == Did("sort") => C24Case(resp[1])

\* The map yielded the keys in descending order and Slugs returned them in
\* ascending order.
C24_Witness ==
    /\ Did("sort")
    /\ resp[1].order = <<S8G, S4G, S2G, S1G, S512M, S256M>>
    /\ resp[1].out = <<S256M, S512M, S1G, S2G, S4G, S8G>>

\* The order that the slugs are written from: by the rank of the suffix,
\* then by the value of the magnitude.
Before(a, b) == a.rank < b.rank \/ (a.rank = b.rank /\ a.value < b.value)

\* C25: over well-formed slugs Less never panics and is the order by suffix
\* precedence first and by the numeric value of the magnitude second; no
\* slug is less than itself, no two slugs are less than each other, two
\* slugs that differ in suffix or value are ordered one way or the other,
\* and a less than b and b less than c make a less than c.
C25Pair(R) ==
    (R.a.wellformed /\ R.b.wellformed) =>
        /\ ~R.ab.panic /\ ~R.ba.panic
        /\ R.ab.less = Before(R.a, R.b)
        /\ R.ba.less = Before(R.b, R.a)
        /\ R.a.rank < R.b.rank => R.ab.less
        /\ R.a.slug = R.b.slug => ~R.ab.less
        /\ ~(R.ab.less /\ R.ba.less)
        /\ (R.a.rank # R.b.rank \/ R.a.value # R.b.value) => (R.ab.less \/ R.ba.less)

C25Chain(R) ==
    /\ ~R.ab.panic /\ ~R.bc.panic /\ ~R.ac.panic
    /\ (R.ab.less /\ R.bc.less) => R.ac.less

C25_LessIsStrictTotalOrder ==
    /\ Did("compare") => C25Pair(resp[1])
    /\ Did("chain") => C25Chain(resp[1])

\* 9M, 10M and 1G were compared: 9M is less than 10M, 10M less than 1G and
\* 9M less than 1G.
C25_Witness ==
    /\ Did("chain")
    /\ resp[1].a.slug = <<"9", "M">>
    /\ resp[1].b.slug = <<"1", "0", "M">>
    /\ resp[1].c.slug = <<"1", "G">>
    /\ resp[1].ab.less /\ resp[1].bc.less /\ resp[1].ac.less

\* C26 as stated: comparing two slugs panics whenever one of them is
\* malformed, also when their suffixes differ.
C26_MalformedAlwaysPanics ==
    (Did("compare") /\ (~resp[1].a.wellformed \/ ~resp[1].b.wellformed))
        => (resp[1].ab.panic /\ resp[1].ba.panic)

----------------------------------------------------------------------------
(* The pool that requests alone leave behind *)

\* The client buckets that a dataset lies in.
BucketsOf(n) == {b \in Buckets : Len(n) > 2 /\ SubSeq(n, 1, 2) = <<ZpoolName, b>>}

\* C27: starting from the empty pool, whatever requests were served and
\* however their handlers interleaved, every volume of the pool has a name
\* of exactly three segments, the pool name first, lies in exactly one
\* client bucket, which is a filesystem, and is the only dataset of its
\* name.
C27_VolumesAreBucketedLeaves ==
    \A n \in DOMAIN datasets :
        datasets[n].kind = "volume" =>
            /\ Len(n) = 3
            /\ n[1] = ZpoolName
            /\ Cardinality(BucketsOf(n)) = 1
            /\ datasets[Parent(n)].kind = "filesystem"
            /\ Cardinality({m \in DOMAIN datasets :
                               m = n /\ datasets[m].kind # "none"}) = 1

\* Two clients have created a volume each, the second after a create at
\* the bucket level was answered 404.
C27_Witness ==
    /\ \E n1 \in DOMAIN datasets, n2 \in DOMAIN datasets :
         /\ datasets[n1].kind = "volume" /\ datasets[n2].kind = "volume"
         /\ Len(n1) = 3 /\ Len(n2) = 3 /\ n1[2] # n2[2]
    /\ \E t \in Threads, u \in Threads :
         /\ thr[t].pc = "done" /\ thr[t].code = StatusCreated
         /\ thr[u].pc = "done" /\ thr[u].code = StatusNotFound
         /\ thr[u].req.method = "POST" /\ thr[u].req.path = <<"">>

----------------------------------------------------------------------------
(* The sizes that reach the pool *)

\* The catalog as slugs.go writes it, sizes in MiB.
CatalogAsWritten ==
    {<<S256M, 256 * MB>>, <<S512M, 512 * MB>>, <<S1G, 1024 * MB>>,
     <<S2G, 2048 * MB>>, <<S4G, 4096 * MB>>, <<S8G, 8192 * MB>>}

\* The sizes of the catalog entries of a slug.
SizesOf(slug) == {e[2] : e \in {f \in CatalogAsWritten : f[1] = slug}}

\* C28: the catalog is as slugs.go writes it whatever was served; every
\* Pool.CreateVolume that a request makes carries the size of the one
\* catalog entry of the slug in the request body, one of the six catalog
\* sizes; and the volume of a 201 has that size in the pool and in the
\* body.
C28Case(R, post) ==
    /\ storageSizeMap = CatalogAsWritten
    /\ \A i \in 1..Len(R.calls) :
          R.calls[i].op = "CreateVolume" =>
             /\ R.req.body.kind = "json"
             /\ Cardinality(SizesOf(R.req.body.size)) = 1
             /\ SizesOf(R.req.body.size) = {R.calls[i].size}
             /\ R.calls[i].size \in {e[2] : e \in CatalogAsWritten}
    /\ R.code = StatusCreated =>
          /\ HasCall(R, "CreateVolume")
          /\ SizesOf(R.req.body.size) = {post[R.name].size}
          /\ post[R.name].kind = "volume"
          /\ Len(R.body.volumes) = 1
          /\ SizesOf(R.req.body.size) = {R.body.volumes[1].size}

C28_CreatedSizeIsCatalogSize == Served => C28Case(resp[1], datasets)

\* A volume of 1G was created: Pool.CreateVolume was called with 1024 MiB
\* and the volume has that size.
C28_Witness ==
    /\ Served
    /\ resp[1].code = StatusCreated
    /\ resp[1].req.body = JSONBody(S1G)
    /\ resp[1].calls[2].op = "CreateVolume"
    /\ resp[1].calls[2].size = 1024 * MB
    /\ datasets[resp[1].name].size = 1024 * MB

----------------------------------------------------------------------------
(* The classifiers of zfsutil as functions: each is applied to errors drawn *)
(* from a bounded set.                                                      *)

MaxFragments == 2

\* Pieces of diagnostic text: those of the tests, those the classifiers
\* look for and the beginnings that zfs puts before them.
Fragments ==
    {"foo", "some error", "cannot open", "cannot create",
     "dataset does not exist\n", "out of space\n",
     "Unable to open /dev/zfs: Permission denied.\n",
     "cannot open 'zstore': no such pool\n"}

RECURSIVE TextsUpTo(_)
TextsUpTo(n) ==
    IF n = 0 THEN {<<>>}
    ELSE LET shorter == TextsUpTo(n - 1)
         IN  shorter \cup {Append(t, f) : t \in shorter, f \in Fragments}

\* The errors that are classified: nil, errors of other types with any
\* message, and *zfs.Error with any stderr.
ErrorInputs ==
    {NilErr} \cup
    {[kind |-> k, stderr |-> t] :
        k \in {"errors.New", "exec", "zfs.Error"}, t \in TextsUpTo(MaxFragments)}

\* The errors of the four tests: errTests and the one that each test adds.
TestInputs ==
    {NilErr, [kind |-> "errors.New", stderr |-> <<"foo">>],
     ZfsError(<<"some error">>), ZfsError(StderrDenied), ZfsError(StderrNoPool),
     ZfsError(<<"dataset does not exist\n">>), ZfsError(<<"out of space\n">>)}

\* The four classifiers are applied to an error.
Classify ==
    /\ resp = <<>>
    /\ \E e \in ErrorInputs :
         resp' = <<[kind |-> "classify", err |-> e,
                    denied |-> IsZFSPermissionDenied(e),
                    nopool |-> IsZpoolNotExists(e),
                    nodataset |-> IsDatasetNotExists(e),
                    nospace |-> IsOutOfSpace(e)]>>
    /\ UNCHANGED <<datasets, script, thr>>

NextErrors == Classify \/ Deliver

SpecErrors == Init /\ [][NextErrors]_vars

\* The text occurs in no piece of the diagnostic.
Unrelated(stderr, text) == \A i \in 1..Len(stderr) : stderr[i] # text

\* The classifiers that said yes.
SaidYes(R) ==
    {c \in {"denied", "nopool", "nodataset", "nospace"} :
        \/ c = "denied" /\ R.denied
        \/ c = "nopool" /\ R.nopool
        \/ c = "nodataset" /\ R.nodataset
        \/ c = "nospace" /\ R.nospace}

\* C29: each of the four classifiers says no to nil, to an error that is no
\* *zfs.Error whatever its message, and to a *zfs.Error whose stderr does
\* not hold the classifier's text; it says yes to a *zfs.Error whose stderr
\* is its text; and each error of the tests is said yes to by at most one
\* classifier, namely the one whose test adds it.
C29Case(R) ==
    /\ R.err.kind # "zfs.Error" => SaidYes(R) = {}
    /\ R.err.kind = "zfs.Error" =>
          /\ Unrelated(R.err.stderr, "Unable to open /dev/zfs: Permission denied.\n")
                => ~R.denied
          /\ Unrelated(R.err.stderr, "cannot open 'zstore': no such pool\n")
                => ~R.nopool
          /\ Unrelated(R.err.stderr, "dataset does not exist\n") => ~R.nodataset
          /\ Unrelated(R.err.stderr, "out of space\n") => ~R.nospace
          /\ R.err.stderr = <<"Unable to open /dev/zfs: Permission denied.\n">>
                => R.denied
          /\ R.err.stderr = <<"cannot open 'zstore': no such pool\n">> => R.nopool
          /\ R.err.stderr = <<"dataset does not exist\n">> => R.nodataset
          /\ R.err.stderr = <<"out of space\n">> => R.nospace
    /\ R.err \in TestInputs =>
          /\ Cardinality(SaidYes(R)) <= 1
          /\ SaidYes(R) =
                IF R.err = ZfsError(StderrDenied) THEN {"denied"}
                ELSE IF R.err = ZfsError(StderrNoPool) THEN {"nopool"}
                ELSE IF R.err = ZfsError(<<"dataset does not exist\n">>)
                THEN {"nodataset"}
                ELSE IF R.err = ZfsError(<<"out of space\n">>) THEN {"nospace"}
                ELSE {}

C29_ClassifiersMatchOwnTextOnly == Did("classify") => C29Case(resp[1])

\* The error of TestIsOutOfSpace was classified: out of space and nothing
\* else.
C29_Witness ==
    /\ Did("classify")
    /\ resp[1].err = ZfsError(<<"out of space\n">>)
    /\ SaidYes(resp[1]) = {"nospace"}

----------------------------------------------------------------------------
(* The order of the create path *)

\* C30: in a create request Pool.CreateVolume is called only as the second
\* call, after one Pool.Volume on the same name that returned
\* ErrVolumeNotExists, and only with a body whose slug the catalog holds;
\* if the probe returns an error other than ErrVolumeNotExists the answer is
\* 500 whatever the body is, nothing else is called and the pool is left as
\* it was; if Pool.CreateVolume returns an error other than
\* ErrPoolOutOfSpace the answer is 500.
C30Case(R, pre, post) ==
    (R.req.method = "POST" /\ AddrOK(R)) =>
        /\ HasCall(R, "CreateVolume") =>
              /\ Len(R.calls) = 2
              /\ R.calls[1].op = "Volume"
              /\ R.calls[1].name = R.name
              /\ R.calls[1].err = "ErrVolumeNotExists"
              /\ R.calls[2].op = "CreateVolume"
              /\ R.calls[2].name = R.name
              /\ Depth(R.name) = 3
              /\ HasValidSlug(R)
        /\ (Len(R.calls) > 0 /\ R.calls[1].err \notin {"nil", "ErrVolumeNotExists"}) =>
              /\ R.code = StatusInternalServerError
              /\ Len(R.calls) = 1
              /\ ~HasCall(R, "CreateVolume")
              /\ post = pre
        /\ (HasCall(R, "CreateVolume")
              /\ R.calls[Len(R.calls)].err \notin {"nil", "ErrPoolOutOfSpace"}) =>
              R.code = StatusInternalServerError

C30_CreateOnlyAfterProbeAndSlug == Served => C30Case(resp[1], resp[1].pre, datasets)

\* A create request without a usable body whose probe failed was answered
\* 500 after the one call.
C30_Witness ==
    /\ Served
    /\ resp[1].req.method = "POST"
    /\ resp[1].req.body = GarbageBody
    /\ Len(resp[1].calls) = 1
    /\ resp[1].calls[1] = Call("Volume", resp[1].name, 0, ExecError, 1)
    /\ resp[1].code = StatusInternalServerError

----------------------------------------------------------------------------
(* Datasets that are no volumes *)

\* The request is a GET of one name or a DELETE, and the name is a dataset
\* of the pool that is no volume; the zfs command of the probe runs
\* normally.
OnNonVolume(R, pre) ==
    /\ AddrOK(R)
    /\ R.req.method = "DELETE" \/ (R.req.method = "GET" /\ Depth(R.name) # 2)
    /\ Lookup(pre, R.name).kind = "filesystem"
    /\ R.plan.at # 1

\* C31: a GET of one name or a DELETE whose name is a dataset that is no
\* volume is answered 404: every Pool.Volume it makes returns
\* ErrVolumeNotExists, Volume.Destroy is not called and the pool is left as
\* it was.  A listing (its zfs commands running normally) has no entry for
\* a child of the bucket that is no volume.
C31Case(R, pre, post) ==
    /\ OnNonVolume(R, pre) =>
          /\ R.code = StatusNotFound
          /\ \A i \in 1..Len(R.calls) :
                R.calls[i] = Call("Volume", R.name, 0, ErrVolumeNotExists, 1)
          /\ R.req.method = "DELETE" => Len(R.calls) = 1
          /\ ~HasCall(R, "Destroy")
          /\ post = pre
    /\ (IsListing(R) /\ R.plan.at = 0) =>
          \A l \in Leaves :
             pre[Append(BucketOf(R), l)].kind # "volume" =>
                \A i \in 1..Len(R.body.volumes) : R.body.volumes[i].name # l

C31_NonVolumeIsAbsent == Served => C31Case(resp[1], resp[1].pre, datasets)

\* A DELETE of a name that is a filesystem under the client's bucket was
\* answered 404 and the filesystem is still there.
C31_Witness ==
    /\ Served
    /\ resp[1].req.method = "DELETE"
    /\ Depth(resp[1].name) = 3
    /\ resp[1].pre[resp[1].name].kind = "filesystem"
    /\ resp[1].code = StatusNotFound
    /\ datasets[resp[1].name].kind = "filesystem"

----------------------------------------------------------------------------
(* What a request changes *)

\* The volumes of the pool with their sizes.
Volumes(ds) ==
    {[name |-> n, size |-> ds[n].size] : n \in {m \in DOMAIN ds : ds[m].kind = "volume"}}

\* C32: a request changes the volumes of the pool and their sizes in two
\* ways only.  A create answered 201 adds the volume of the derived name,
\* which was none before, and nothing else.  A DELETE that called
\* Volume.Destroy, answered 204 or 500, removes nothing but the volume of
\* the derived name and the volumes under it, and a 204 removes all of
\* them.  Every GET and every request answered 400, 404, 405, 409 or 503
\* leaves the volumes and their sizes as they were.
C32Case(R, pre, post) ==
    /\ Volumes(post) # Volumes(pre) =>
          \/ R.req.method = "POST" /\ R.code = StatusCreated
          \/ /\ R.req.method = "DELETE" /\ HasCall(R, "Destroy")
             /\ R.code \in {StatusNoContent, StatusInternalServerError}
    /\ R.code = StatusCreated =>
          /\ \A v \in Volumes(pre) : v.name # R.name
          /\ Volumes(post) = Volumes(pre) \cup {[name |-> R.name, size |-> SizeAsked(R)]}
    /\ (R.req.method = "DELETE" /\ HasCall(R, "Destroy")) =>
          /\ Volumes(post) \subseteq Volumes(pre)
          /\ \A v \in Volumes(pre) \ Volumes(post) : IsUnder(v.name, R.name)
    /\ R.code = StatusNoContent =>
          Volumes(post) = {v \in Volumes(pre) : ~IsUnder(v.name, R.name)}
    /\ (\/ R.req.method = "GET"
        \/ R.code \in {StatusBadRequest, StatusNotFound, StatusMethodNotAllowed,
                       StatusConflict, StatusServiceUnavailable}) =>
          Volumes(post) = Volumes(pre)

C32_VolumesChangeByCreateAndDestroyOnly == Served => C32Case(resp[1], resp[1].pre, datasets)

\* A volume was destroyed with 204 while another volume of the same bucket
\* stayed as it was.
C32_Witness ==
    /\ Served
    /\ resp[1].req.method = "DELETE"
    /\ resp[1].code = StatusNoContent
    /\ Depth(resp[1].name) = 3
    /\ \E v \in Volumes(datasets) :
          /\ Parent(v.name) = Parent(resp[1].name)
          /\ v \in Volumes(resp[1].pre)
    /\ Volumes(datasets) # Volumes(resp[1].pre)

----------------------------------------------------------------------------
(* Bodies that the decoder refuses *)

\* C33 as stated: a create request for an absent depth-3 name whose body is
\* not empty and cannot be decoded into the request object, being no
\* well-formed JSON or having a size that is no string, is answered 500 and
\* Pool.CreateVolume is not invoked.
C33_UndecodableBodyIs500 ==
    (/\ Served /\ IsCreateOfAbsent(resp[1], resp[1].pre)
     /\ resp[1].req.body.kind \in {"blank", "garbage", "truncated", "badtype", "nullsize"})
    => (/\ resp[1].code = StatusInternalServerError
        /\ ~HasCall(resp[1], "CreateVolume"))

\* C33: a create request for an absent depth-3 name whose body holds text
\* that is no JSON, a JSON value that ends early or a size that is a number
\* is answered 500 with one log line; a body of white space only, a null, a
\* size that is null, an object without a size and an empty size string are
\* answered 400 with the list of the slugs and no log line, as is no body.
\* In neither case is Pool.CreateVolume invoked or the pool changed.
C33Case(R, pre, post) ==
    IsCreateOfAbsent(R, pre) =>
        /\ R.req.body.kind \in {"garbage", "truncated", "badtype"} =>
              /\ R.code = StatusInternalServerError
              /\ R.logged = 1
              /\ ~HasCall(R, "CreateVolume")
              /\ post = pre
        /\ (\/ R.req.body.kind \in {"empty", "blank", "null", "nullsize"}
            \/ R.req.body = JSONBody(<<>>)) =>
              /\ R.code = StatusBadRequest
              /\ R.body = SlugsBody(SortedSlugs)
              /\ R.logged = 0
              /\ ~HasCall(R, "CreateVolume")
              /\ post = pre

C33_DecodeErrorIs500ElseEmptySizeIs400 ==
    Served => C33Case(resp[1], resp[1].pre, datasets)

\* A create request whose body is {"size":null} was answered 400, and one
\* whose body is cut short would be answered 500.
C33_Witness ==
    /\ Served
    /\ IsCreateOfAbsent(resp[1], resp[1].pre)
    /\ resp[1].req.body = BodyOfKind("nullsize")
    /\ resp[1].code = StatusBadRequest
    /\ ServeHTTP(resp[1].pre, [resp[1].req EXCEPT !.body = BodyOfKind("truncated")], NoPlan).code
          = StatusInternalServerError

----------------------------------------------------------------------------
(* Creating again what was destroyed *)

\* C34: when a create was answered 201 and the DELETE of the same name 204,
\* the next create of the name with a valid slug is answered 201, not 409:
\* its body carries the leaf name and the size of the new slug, and the
\* volume of the pool has the size of the new slug, whatever the size of
\* the first volume was and whatever other requests were served in between.
C34_RecreateAfterDestroyIs201 ==
    (/\ script.stage = 8
     /\ script.answers[1].code = StatusCreated
     /\ script.answers[2].code = StatusNoContent)
    => (/\ script.answers[3].code = StatusCreated
        /\ script.answers[3].body =
              OneVolumeBody(script.leaf, SlugSize(script.slug).size)
        /\ datasets[LifeName] =
              [kind |-> "volume", size |-> SlugSize(script.slug).size])

\* A volume of 1G was created and destroyed, and created again with 256M.
C34_Witness ==
    /\ script.stage = 8
    /\ script.answers[1].code = StatusCreated
    /\ script.answers[1].body = OneVolumeBody(script.leaf, 1024 * MB)
    /\ script.answers[2].code = StatusNoContent
    /\ script.slug = S256M
    /\ script.answers[3].code = StatusCreated
    /\ datasets[LifeName].size = 256 * MB

----------------------------------------------------------------------------
(* Concurrent deletes *)

\* Both DELETE requests for the volume have been answered.
BothDeleted == script.stage = 9 /\ \A t \in Threads : thr[t].pc = "done"

\* C35: of two DELETE requests for one existing volume whose Pool.Volume and
\* Volume.Destroy calls interleave in any order, the Destroy of a volume
\* that is gone failing, one is answered 204 and the other 404 or 500, never
\* both 204, and the volume is absent afterwards.
C35_RacedDeleteIs204Once ==
    BothDeleted =>
        /\ Cardinality({t \in Threads : thr[t].code = StatusNoContent}) = 1
        /\ \A t \in Threads :
              thr[t].code \in {StatusNoContent, StatusNotFound,
                               StatusInternalServerError}
        /\ \A t \in Threads :
              thr[t].code = StatusNotFound => ~HasCall(thr[t], "Destroy")
        /\ \A t \in Threads :
              thr[t].code = StatusInternalServerError =>
                 /\ HasCall(thr[t], "Destroy")
                 /\ \E u \in Threads : u \in thr[t].with \/ t \in thr[u].with
        /\ datasets[LifeName].kind = "none"

\* Both requests found the volume before either destroyed it: one was
\* answered 204 and the other 500.
C35_Witness ==
    /\ BothDeleted
    /\ \E t \in Threads, u \in Threads :
         /\ u \in thr[t].with
         /\ thr[u].code = StatusNoContent
         /\ thr[t].code = StatusInternalServerError
         /\ thr[t].logged = 1
    /\ datasets[LifeName].kind = "none"

============================================================================
